---- MODULE Spec2Model ----
(***************************************************************************)
(* DHSILED edge node: the messaging client (processors/mqtt_client.py)     *)
(* and the edge processor (processors/edge_processor.py) as state          *)
(* machines.  One specification per component:                             *)
(*   SpecMqtt     the MQTTClient: connect, run loop, publish, offline      *)
(*                queue, queue flush, disconnect                           *)
(*   SpecConnFair the connection life cycle of the MQTTClient under the    *)
(*                fairness of the asyncio scheduler and of a broker that   *)
(*                eventually accepts connections                           *)
(*   SpecEdge     the EdgeProcessor: process_frame and its alert policy    *)
(*   SpecDensity  calculate_crowd_density / get_threshold_status applied   *)
(*                to pairs of people counts                                *)
(*   SpecApp      the edge application (main.py): initialize, run, the     *)
(*                video and health loops, the commands, restart, shutdown  *)
(*   SpecApi      the backend API server (backend/api_server.py): the bus  *)
(*                subscriber, its caches and the command and               *)
(*                acknowledgement endpoints                                *)
(***************************************************************************)
EXTENDS Integers, Sequences, FiniteSets, TLC

VARIABLES
    \* ---- MQTTClient (mqtt_client.py) ----
    MQTT_AVAILABLE,   \* module flag: paho-mqtt could be imported
    client,           \* self.client: "None", "paho" or "mock"
    link,             \* session of the current client object:
                      \*   "none", "pending" (CONNECT sent), "up", "down"
    connected,        \* self.connected
    message_queue,    \* self.message_queue: sequence of queued messages
    wire,             \* the subscriptions and status announcements the
                      \*   current client object was asked to send
    flush,            \* the _process_message_queue tasks created by _on_connect
    rpc,              \* position of the run() task: "init", "top", "loop",
                      \*   "backoff", "dead"
    dpc,              \* position of a disconnect() call: "idle", "sleep"
    now,              \* time.time(), in seconds
    nextId,           \* number of publish() calls made by the application + 1
    \* ---- history of the messaging client ----
    lastPublish,      \* the last publish() call of the application: whether
                      \*   the client was connected, what became of the message
    lastFlushed,      \* id of the message a queue flush handed over last
    runIter,          \* what the last run() iteration saw and did
    dcalls,           \* number of disconnect() calls started
    \* ---- EdgeProcessor (edge_processor.py) ----
    density_thresholds,  \* self.density_thresholds
    last_people_count,   \* self.last_people_count
    alert_cooldown,      \* self.alert_cooldown: alert key -> cooldown_until
    grid_status,         \* what the last process_frame call returned
    frame,               \* what the last process_frame call went through
    fbit,                \* flips on every process_frame call
    lastAlertAt,         \* history: alert key -> time of its last alert
    \* ---- density bucketing on a pair of counts ----
    dIn,              \* the pair of people counts
    dOut,             \* the results computed so far
    \* ---- DHSILEDEdgeApp (main.py) ----
    running,             \* self.running
    processing_enabled,  \* self.processing_enabled
    camera,              \* self.camera: "None", "open", "closed", "released"
    mainPc,              \* position of main(): "init", "run", "gather", "done"
    endCause,            \* why main() ended: "none", "init" (initialize
                         \*   raised), "task" (a loop task raised), "caught"
                         \*   (KeyboardInterrupt caught in run()), "cancelled"
    exitCode,            \* what main() returned: "none", "0", "1", "raised"
    videoPc,             \* position of process_video_stream: "idle", "top",
                         \*   "processing" (inside process_frame), "sleep",
                         \*   "retry", "done", "failed", "cancelled"
    healthPc,            \* position of monitor_device_health: "idle", "top",
                         \*   "sleep", "done", "cancelled"
    cmdPc,               \* position of a restart command: "idle", "pause"
    restarts,            \* number of restart commands handled
    \* ---- history of the edge application ----
    restartOk,           \* a restart command has completed its initialize
    healthIter,          \* the last health loop iteration: whether it got a
                         \*   health record, whether it published it
    sbit,                \* flips on every publish on <base>/status
    shutdowns,           \* number of shutdown() calls
    \* ---- API server (api_server.py) ----
    grid_states,         \* grid id -> cached status payload
    alert_history,       \* the alert ring
    health_history,      \* the health ring
    mqtt_client,         \* the server's bus client: "None" (not created),
                         \* "idle" (created, connect failed, no network
                         \* thread), "up" (connected), "down" (connection lost)
    \* ---- history of the API server ----
    busLog,              \* the bus messages handled, in arrival order
    apiReq,              \* the last HTTP request handled
    apiResp,             \* the response it got
    alertsOut,           \* the list GET /api/alerts answered last
    \* ---- realtime bridge (websocket_server.py) ----
    wsMqtt,              \* the bridge's bus client: "None", "idle", "up"
    connected_clients,   \* the socket clients connected now
    wsTask,              \* what became of the last bus message's broadcast
    wsSent,              \* the sends to socket clients, in order
    \* ---- configuration (utils/config.py) ----
    config_data,         \* the configuration document
    cfgOut,              \* the last get/set call and its outcome
    \* ---- rate limiter (utils/helpers.py) ----
    max_calls,
    period,
    calls,               \* the times of the calls that count
    rlNow,               \* the clock time.time() reads
    rlOut,               \* the last call and what it returned
    rlAllowed,           \* history: the times is_allowed() returned true
    \* ---- data access layer (database_models.py) ----
    db_grids,            \* the collections, in insertion order
    db_alerts,
    db_health,
    db_analytics,
    dbOut,               \* the last operation and its outcome
    \* ---- history of the queue flushes (mqtt_client.py) ----
    queuedAt,            \* message id -> time it first entered the offline
                         \*   queue, -1 while it never has
    handed,              \* message id -> number of times a flush handed it
                         \*   to the transport
    lastFlush,           \* the message a flush processed last, and its fate
    \* ---- BehaviorAnalyzer (behavior_analyzer.py) ----
    prediction_history,  \* self.prediction_history, oldest first
    baOut,               \* the last call and what it returned
    \* ---- DeviceMonitor (device_monitor.py) ----
    last_alerts,         \* self.last_alerts: alert key -> time
    dmNow,               \* time.time(), in seconds
    dmOut,               \* the last call and what it returned
    dmEmitted,           \* history: alert key -> times of its alerts
    \* ---- threads of the API server (api_server.py) ----
    subPending,          \* the ring the subscriber thread has appended to
                         \*   and not yet trimmed: "none", "alerts", "health"
    seen                 \* what the last request handler observed

mqttVars == <<MQTT_AVAILABLE, client, link, connected, message_queue, wire,
              flush, rpc, dpc, nextId, lastPublish, lastFlushed, runIter,
              dcalls>>
edgeVars == <<density_thresholds, last_people_count, alert_cooldown,
              grid_status, frame, fbit, lastAlertAt>>
densVars == <<dIn, dOut>>
appVars == <<running, processing_enabled, camera, mainPc, endCause, exitCode,
             videoPc, healthPc, cmdPc, restarts, restartOk, healthIter, sbit,
             shutdowns>>
apiVars == <<grid_states, alert_history, health_history, mqtt_client, busLog,
             apiReq, apiResp>>
bridgeVars == <<wsMqtt, connected_clients, wsTask, wsSent>>
cfgVars == <<config_data, cfgOut>>
rlVars == <<max_calls, period, calls, rlNow, rlOut, rlAllowed>>
dbVars == <<db_grids, db_alerts, db_health, db_analytics, dbOut>>
flushVars == <<queuedAt, handed, lastFlush>>
baVars == <<prediction_history, baOut>>
dmVars == <<last_alerts, dmNow, dmOut, dmEmitted>>
thrVars == <<subPending, seen>>
ext2Vars == <<baVars, dmVars, thrVars>>
extVars == <<flushVars, ext2Vars>>
libVars == <<alertsOut, bridgeVars, cfgVars, rlVars, dbVars, extVars>>
vars == <<mqttVars, edgeVars, densVars, appVars, apiVars, libVars, now>>

(***************************************************************************)
(* Bounds of the model.                                                    *)
(***************************************************************************)
\* publish() calls made by the application tasks
MaxMsgs == 3
\* _process_message_queue tasks alive at the same time
MaxFlush == 1
\* disconnect() calls
MaxDisconnects == 1
\* self.max_queue_size is 1000 in the source (mqtt_client.py:46); the model
\* runs the same code with a queue of this capacity
max_queue_size == 2
\* the clock of the messaging model advances in steps of MqttTick seconds
MqttTick == 300
MqttMaxTime == 300

(***************************************************************************)
(* Topics and payloads (mqtt_client.py:42, 117-121, 128-134, 267-278).     *)
(***************************************************************************)
base_topic == "dhsiled/grids/G01"

command_topics == << "dhsiled/grids/G01/commands",
                     "dhsiled/system/commands",
                     "dhsiled/system/broadcast" >>

StatusTopic == "dhsiled/grids/G01/status"

\* the topic the application tasks publish on
DataTopic == "dhsiled/grids/G01/alerts"

Sub(t) == [op |-> "subscribe", topic |-> t, body |-> "", retain |-> FALSE]

online_message == [op |-> "publish", topic |-> StatusTopic, body |-> "online",
                   retain |-> TRUE]

offline_message == [op |-> "publish", topic |-> StatusTopic,
                    body |-> "offline", retain |-> TRUE]

\* seconds after which a queued message is discarded by the flush
MaxQueueAge == 300

(***************************************************************************)
(* MQTTClient: the offline queue and publish.                              *)
(***************************************************************************)
\* _queue_message with the eviction dropped (a bug the bound would show)
queue_message_no_evict(q, m) ==
    Append(q, [id |-> m.id, topic |-> m.topic, ts |-> now])

\* MQTTClient._queue_message: evict the oldest entry of a full queue, then
\* append the message stamped with the current time
queue_message(q, m) ==
    LET kept == IF Len(q) >= max_queue_size THEN Tail(q) ELSE q
    IN  Append(kept, [id |-> m.id, topic |-> m.topic, ts |-> now])

\* What self.client.publish(...) followed by the comparison of its result
\* with mqtt.MQTT_ERR_SUCCESS can do.  paho: success ("ok"), an error code
\* ("rc") or an exception ("raise").  Mock transport: the message is recorded
\* and then the name mqtt is unbound (the import failed), so the comparison
\* raises NameError ("mock").
SendOutcomes == IF client = "mock" THEN {"mock"} ELSE {"ok", "rc", "raise"}

\* MQTTClient.publish on queue q: the new queue, and whether the message
\* went to the transport / to the queue
publish(q, m, out) ==
    IF connected /\ client # "None"
    THEN CASE out = "ok" -> [queue |-> q, sent |-> TRUE, queued |-> FALSE]
           [] out = "mock" ->
                [queue |-> queue_message(q, m), sent |-> TRUE, queued |-> TRUE]
           [] OTHER ->
                [queue |-> queue_message(q, m), sent |-> FALSE, queued |-> TRUE]
    ELSE [queue |-> q, sent |-> FALSE, queued |-> FALSE]

FateOf(r) == IF r.sent /\ r.queued THEN "sent+queued"
             ELSE IF r.sent THEN "sent"
             ELSE IF r.queued THEN "queued"
             ELSE "dropped"

Running == rpc \in {"top", "loop", "backoff"}

\* An application task (video loop, health loop, alert generation) calls
\* publish(topic, payload)
PublishCall ==
    /\ Running
    /\ nextId <= MaxMsgs
    /\ \E out \in SendOutcomes :
         LET m == [id |-> nextId, topic |-> DataTopic, ts |-> now]
             r == publish(message_queue, m, out)
         IN  /\ message_queue' = r.queue
             /\ lastPublish' = [connected |-> connected, to |-> FateOf(r)]
    /\ nextId' = nextId + 1
    /\ UNCHANGED <<MQTT_AVAILABLE, client, link, connected, wire, flush, rpc,
                   dpc, lastFlushed, runIter, dcalls, now>>
    /\ UNCHANGED <<edgeVars, densVars, appVars, apiVars>>

Publish ==
    /\ PublishCall
    /\ UNCHANGED libVars

(***************************************************************************)
(* MQTTClient: queue flush.                                                *)
(***************************************************************************)
\* the tasks are kept in the order of their creation
RemoveAt(s, i) == SubSeq(s, 1, i - 1) \o SubSeq(s, i + 1, Len(s))

\* the messages at the head of L that the age check discards are skipped
\* without a suspension point
RECURSIVE SkipOld(_)
SkipOld(L) ==
    IF L = <<>> THEN <<>>
    ELSE IF now - Head(L).ts < MaxQueueAge THEN L
    ELSE SkipOld(Tail(L))

\* MQTTClient._process_message_queue, task i, from its start or from its
\* sleep up to its next sleep or its end
process_message_queue(i, out) ==
    LET t == flush[i]
        starting == t.st = "new"
        todo0 == IF starting THEN message_queue ELSE t.todo
        q0 == IF starting THEN <<>> ELSE message_queue
        todo1 == SkipOld(todo0)
    IN  IF starting /\ message_queue = <<>>
        THEN /\ flush' = RemoveAt(flush, i)
             /\ UNCHANGED <<message_queue, lastFlushed>>
        ELSE IF todo1 = <<>>
        THEN /\ flush' = RemoveAt(flush, i)
             /\ message_queue' = q0
             /\ UNCHANGED lastFlushed
        ELSE LET r == publish(q0, Head(todo1), out)
             IN  /\ message_queue' = r.queue
                 /\ lastFlushed' = IF r.sent THEN Head(todo1).id
                                   ELSE lastFlushed
                 /\ flush' = [flush EXCEPT
                                ![i] = [st |-> "run", todo |-> Tail(todo1)]]

\* what a flush step leaves alone
flushRest == <<MQTT_AVAILABLE, client, link, connected, wire, rpc, dpc,
               nextId, lastPublish, runIter, dcalls, now, edgeVars, densVars,
               appVars, apiVars>>

FlushStep ==
    /\ \E i \in 1..Len(flush) :
         \E out \in SendOutcomes : process_message_queue(i, out)
    /\ UNCHANGED <<flushRest, libVars>>

(***************************************************************************)
(* MQTTClient: connect, the connection callbacks and the run loop.         *)
(***************************************************************************)
\* MQTTClient.connect: a new client object; the mock transport connects at
\* once, paho sends CONNECT (or raises) and reports the result later
connect(out) ==
    IF ~MQTT_AVAILABLE
    THEN /\ client' = "mock"
         /\ link' = "up"
         /\ connected' = TRUE
         /\ wire' = <<>>
    ELSE /\ client' = "paho"
         /\ link' = IF out = "ok" THEN "pending" ELSE "down"
         /\ connected' = connected
         /\ wire' = <<>>

ConnectOutcomes == IF MQTT_AVAILABLE THEN {"ok", "raise"} ELSE {"ok"}

\* DHSILEDEdgeApp.initialize calls connect() once; a failure is fatal, a
\* success is followed by run(), which starts the client's run() task
InitConnect ==
    /\ rpc = "init"
    /\ \E out \in ConnectOutcomes :
         /\ connect(out)
         /\ rpc' = IF out = "ok" THEN "top" ELSE "dead"
    /\ UNCHANGED <<MQTT_AVAILABLE, message_queue, flush, dpc, nextId,
                   lastPublish, lastFlushed, runIter, dcalls, now>>
    /\ UNCHANGED <<edgeVars, densVars, appVars, apiVars, libVars>>

\* the reconnect condition with the negation lost
ShouldReconnectInverted == connected /\ MQTT_AVAILABLE

\* the condition under which a run() iteration calls connect()
ShouldReconnect == ~connected /\ MQTT_AVAILABLE

\* what the handler of run() does with an exception raised in an iteration
AfterLoopError == "backoff"

\* MQTTClient.run, first half of an iteration: reconnect when needed
RunTop ==
    /\ rpc = "top"
    /\ IF ShouldReconnect
       THEN \E out \in ConnectOutcomes :
              /\ connect(out)
              /\ rpc' = IF out = "ok" THEN "loop" ELSE AfterLoopError
       ELSE /\ rpc' = "loop"
            /\ UNCHANGED <<client, link, connected, wire>>
    /\ runIter' = [disconnected |-> ~connected, connect |-> ShouldReconnect]
    /\ UNCHANGED <<MQTT_AVAILABLE, message_queue, flush, dpc, nextId,
                   lastPublish, lastFlushed, dcalls, now>>
    /\ UNCHANGED <<edgeVars, densVars, appVars, apiVars, libVars>>

RunRest == UNCHANGED <<MQTT_AVAILABLE, client, message_queue, dpc, nextId,
                       lastPublish, lastFlushed, runIter, dcalls, now,
                       edgeVars, densVars, appVars, apiVars, libVars>>

\* client.loop() with nothing to deliver, then the 1 s sleep
RunLoopIdle ==
    /\ rpc = "loop"
    /\ rpc' = "top"
    /\ UNCHANGED <<link, connected, wire, flush>>
    /\ RunRest

\* MQTTClient._on_connect with rc = 0, called by client.loop(): subscribe,
\* announce `online`, create the flush task
on_connect_ok ==
    /\ connected' = TRUE
    /\ link' = "up"
    /\ wire' = wire \o <<Sub(command_topics[1]), Sub(command_topics[2]),
                         Sub(command_topics[3]), online_message>>
    /\ flush' = Append(flush, [st |-> "new", todo |-> <<>>])

RunLoopConnAck ==
    /\ rpc = "loop"
    /\ client = "paho"
    /\ link = "pending"
    /\ Len(flush) < MaxFlush
    /\ on_connect_ok
    /\ rpc' = "top"
    /\ RunRest

\* MQTTClient._on_connect with rc # 0
RunLoopConnRefused ==
    /\ rpc = "loop"
    /\ client = "paho"
    /\ link = "pending"
    /\ connected' = FALSE
    /\ link' = "down"
    /\ rpc' = "top"
    /\ UNCHANGED <<wire, flush>>
    /\ RunRest

\* MQTTClient._on_disconnect, called by client.loop() when the session ends
RunLoopDisconnected ==
    /\ rpc = "loop"
    /\ client = "paho"
    /\ link = "up"
    /\ connected' = FALSE
    /\ link' = "down"
    /\ rpc' = "top"
    /\ UNCHANGED <<wire, flush>>
    /\ RunRest

\* client.loop() raises: the exception is logged, the loop waits 5 s
RunLoopError ==
    /\ rpc = "loop"
    /\ client = "paho"
    /\ rpc' = AfterLoopError
    /\ UNCHANGED <<link, connected, wire, flush>>
    /\ RunRest

\* the 5 s wait after an exception is over
RunBackoff ==
    /\ rpc = "backoff"
    /\ rpc' = "top"
    /\ UNCHANGED <<link, connected, wire, flush>>
    /\ RunRest

(***************************************************************************)
(* MQTTClient.disconnect.                                                  *)
(***************************************************************************)
DiscPublishOutcomes == IF client = "mock" THEN {"ok"} ELSE {"ok", "rc", "raise"}

DiscCloseOutcomes == IF client = "mock" THEN {"ok"} ELSE {"ok", "raise"}

\* disconnect() up to its 1 s sleep, or to its return
DisconnectBegin ==
    /\ Running
    /\ dpc = "idle"
    /\ dcalls < MaxDisconnects
    /\ dcalls' = dcalls + 1
    /\ IF connected /\ client # "None"
       THEN \E out \in DiscPublishOutcomes :
              /\ wire' = IF out = "ok" THEN Append(wire, offline_message)
                         ELSE wire
              /\ dpc' = IF out = "raise" THEN "idle" ELSE "sleep"
              /\ connected' = connected
       ELSE /\ connected' = FALSE
            /\ UNCHANGED <<wire, dpc>>
    /\ UNCHANGED <<MQTT_AVAILABLE, client, link, message_queue, flush, rpc,
                   nextId, lastPublish, lastFlushed, runIter, now>>
    /\ UNCHANGED <<edgeVars, densVars, appVars, apiVars, libVars>>

\* disconnect() after its sleep: close the transport, clear the flag
DisconnectFinish ==
    /\ dpc = "sleep"
    /\ \E out \in DiscCloseOutcomes :
         /\ link' = IF out = "ok" THEN "down" ELSE link
         /\ connected' = IF out = "ok" THEN FALSE ELSE connected
    /\ dpc' = "idle"
    /\ UNCHANGED <<MQTT_AVAILABLE, client, message_queue, wire, flush, rpc,
                   nextId, lastPublish, lastFlushed, runIter, dcalls, now>>
    /\ UNCHANGED <<edgeVars, densVars, appVars, apiVars, libVars>>

\* time passes
TickMqtt ==
    /\ now + MqttTick <= MqttMaxTime
    /\ now' = now + MqttTick
    /\ UNCHANGED <<mqttVars, edgeVars, densVars, appVars, apiVars, libVars>>

(***************************************************************************)
(* Initial states and specifications.                                      *)
(***************************************************************************)
\* MQTTClient.__init__
InitClient ==
    /\ client = "None"
    /\ link = "none"
    /\ connected = FALSE
    /\ message_queue = <<>>
    /\ wire = <<>>
    /\ flush = <<>>
    /\ rpc = "init"
    /\ dpc = "idle"
    /\ nextId = 1
    /\ lastPublish = [connected |-> FALSE, to |-> "none"]
    /\ lastFlushed = 0
    /\ runIter = [disconnected |-> FALSE, connect |-> FALSE]
    /\ dcalls = 0

\* the default of grid.density_thresholds; numeric: every value is a number
DefaultThresholds ==
    [normal |-> 60, moderate |-> 100, high |-> 150, critical |-> 200,
     numeric |-> TRUE]

\* thresholds in which update_config has replaced the lowest threshold by a
\* value that is no number
InvalidThresholds == [DefaultThresholds EXCEPT !.numeric = FALSE]

NoFrame == [evaluated |-> FALSE, cond |-> {}, saved |-> FALSE,
            emergency |-> "none", failure |-> "none"]

NoStatus == [kind |-> "none", people_count |-> 0, level |-> "unknown",
             threshold_status |-> "unknown", emergency |-> "unknown",
             alerts |-> {}]

\* EdgeProcessor.__init__
InitProcessor ==
    /\ density_thresholds = DefaultThresholds
    /\ last_people_count = 0
    /\ alert_cooldown = <<>>
    /\ grid_status = NoStatus
    /\ frame = NoFrame
    /\ fbit = FALSE
    /\ lastAlertAt = <<>>

InitDensityIdle ==
    /\ dIn = <<0, 0>>
    /\ dOut = <<>>

\* DHSILEDEdgeApp.__init__
InitApp ==
    /\ running = FALSE
    /\ processing_enabled = TRUE
    /\ camera = "None"
    /\ mainPc = "init"
    /\ endCause = "none"
    /\ exitCode = "none"
    /\ videoPc = "idle"
    /\ healthPc = "idle"
    /\ cmdPc = "idle"
    /\ restarts = 0
    /\ restartOk = FALSE
    /\ healthIter = [record |-> FALSE, published |-> FALSE]
    /\ sbit = FALSE
    /\ shutdowns = 0

NoRequest == [endpoint |-> "none", grid_id |-> "", alert_id |-> 0,
              body |-> "none"]

NoResponse == [code |-> 0, bus |-> "None", published |-> FALSE,
               accepted |-> FALSE, topic |-> <<>>]

\* nothing answered yet by GET /api/alerts
InitAlertsOut == alertsOut = <<>>

\* the realtime bridge after import: no socket client, nothing sent
NoBridgeMessage == [outcome |-> "none", topic |-> <<>>, payload |-> <<>>,
                    data |-> <<>>, clients |-> {}]

InitBridge ==
    /\ wsMqtt = "None"
    /\ connected_clients = {}
    /\ wsTask = NoBridgeMessage
    /\ wsSent = <<>>

EmptyMap == [kind |-> "map", items |-> <<>>]
NoCfgCall == [op |-> "none", raised |-> FALSE]

\* Config.__init__ before load_config
InitConfigIdle ==
    /\ config_data = EmptyMap
    /\ cfgOut = NoCfgCall

NoLimiterCall == [op |-> "none", at |-> 0, allowed |-> FALSE, wait |-> 0,
                  raised |-> FALSE]

\* no rate limiter in use
InitLimiterIdle ==
    /\ max_calls = 1
    /\ period = 1
    /\ calls = <<>>
    /\ rlNow = 0
    /\ rlOut = NoLimiterCall
    /\ rlAllowed = <<>>

NoDbCall == [op |-> "none", raised |-> FALSE, ok |-> TRUE]

\* empty collections
InitDb ==
    /\ db_grids = <<>>
    /\ db_alerts = <<>>
    /\ db_health = <<>>
    /\ db_analytics = <<>>
    /\ dbOut = NoDbCall

\* no queue flush yet
NoFlush == [id |-> 0, fate |-> "none", age |-> 0]

InitFlushHistory ==
    /\ queuedAt = [id \in 1..MaxMsgs |-> -1]
    /\ handed = [id \in 1..MaxMsgs |-> 0]
    /\ lastFlush = NoFlush

\* no call of the behavior analyzer yet
NoAnalysis == [op |-> "none", n |-> 0]

InitAnalyzerIdle ==
    /\ prediction_history = <<>>
    /\ baOut = NoAnalysis

\* no call of the device monitor yet
NoMonitorCall == [op |-> "none"]

InitMonitorIdle ==
    /\ last_alerts = <<>>
    /\ dmNow = 0
    /\ dmOut = NoMonitorCall
    /\ dmEmitted = <<>>

NothingSeen == [by |-> "none", ring |-> "none", len |-> 0, count |-> 0]

InitThreads ==
    /\ subPending = "none"
    /\ seen = NothingSeen

InitExt ==
    /\ InitFlushHistory
    /\ InitAnalyzerIdle
    /\ InitMonitorIdle
    /\ InitThreads

InitLibraries ==
    /\ InitExt
    /\ InitAlertsOut
    /\ InitBridge
    /\ InitConfigIdle
    /\ InitLimiterIdle
    /\ InitDb

\* the module state of api_server.py after import
InitServer ==
    /\ grid_states = <<>>
    /\ alert_history = <<>>
    /\ health_history = <<>>
    /\ mqtt_client = "None"
    /\ busLog = <<>>
    /\ apiReq = NoRequest
    /\ apiResp = NoResponse

InitMqtt ==
    /\ MQTT_AVAILABLE \in BOOLEAN
    /\ InitClient
    /\ now = 0
    /\ InitProcessor
    /\ InitDensityIdle
    /\ InitApp
    /\ InitServer
    /\ InitLibraries

NextMqtt ==
    \/ InitConnect
    \/ RunTop
    \/ RunLoopIdle
    \/ RunLoopConnAck
    \/ RunLoopConnRefused
    \/ RunLoopDisconnected
    \/ RunLoopError
    \/ RunBackoff
    \/ Publish
    \/ FlushStep
    \/ DisconnectBegin
    \/ DisconnectFinish
    \/ TickMqtt

SpecMqtt == InitMqtt /\ [][NextMqtt]_vars

\* The asyncio scheduler runs every ready task (weak fairness of the steps of
\* the run loop and of the flush tasks); the broker eventually accepts a
\* connection and answers it before the next iteration (strong fairness of
\* the successful connect and of the CONNACK with rc = 0).
RunLoopStep ==
    \/ RunLoopIdle
    \/ RunLoopConnAck
    \/ RunLoopConnRefused
    \/ RunLoopDisconnected
    \/ RunLoopError

MqttFairness ==
    /\ WF_vars(RunTop)
    /\ WF_vars(RunLoopStep)
    /\ WF_vars(RunBackoff)
    /\ WF_vars(FlushStep)
    /\ SF_vars(RunTop /\ link' = "pending")
    /\ SF_vars(RunLoopConnAck)

\* the connection life cycle of the client: everything but the traffic of
\* the application, on which it does not depend
NextConn ==
    \/ InitConnect
    \/ RunTop
    \/ RunLoopIdle
    \/ RunLoopConnAck
    \/ RunLoopConnRefused
    \/ RunLoopDisconnected
    \/ RunLoopError
    \/ RunBackoff
    \/ FlushStep
    \/ DisconnectBegin
    \/ DisconnectFinish
    \/ TickMqtt

SpecConnFair == InitMqtt /\ [][NextConn]_vars /\ MqttFairness

(***************************************************************************)
(* Claims about the messaging client.                                      *)
(***************************************************************************)
Queued == {"queued", "sent+queued"}

\* C1: publish() while the client is not connected appends the message to
\* the offline queue, a failed send appends it too, and no message passed to
\* publish() is dropped without having been sent or queued.
C1_PublishNeverDrops ==
    /\ (lastPublish.to # "none" /\ ~lastPublish.connected)
           => lastPublish.to \in Queued
    /\ lastPublish.to # "dropped"

\* C2: queue flushes hand the queued messages to the transport in the order
\* in which they first entered the queue (which is the order of their ids),
\* whatever flushes, failed re-publishes and reconnects happen in between.
C2_FlushInEnqueueOrder ==
    [][lastFlushed' # lastFlushed => lastFlushed' > lastFlushed]_vars

AppEnqueue == nextId' = nextId + 1 /\ lastPublish'.to \in Queued

\* C3: the offline queue never holds more than max_queue_size messages; an
\* enqueue into a full queue removes exactly the oldest entry and appends
\* the new message at the tail, the others keeping their order.
C3_QueueBounded ==
    /\ [](Len(message_queue) <= max_queue_size)
    /\ [][ /\ AppEnqueue =>
               message_queue' =
                  Append(IF Len(message_queue) = max_queue_size
                         THEN Tail(message_queue) ELSE message_queue,
                         [id |-> nextId, topic |-> DataTopic, ts |-> now])
           /\ ( /\ Len(message_queue) = max_queue_size
                /\ Len(message_queue') = max_queue_size
                /\ message_queue' # message_queue )
               => /\ SubSeq(message_queue', 1, max_queue_size - 1)
                       = Tail(message_queue)
                  /\ message_queue'[max_queue_size].ts = now
         ]_vars

\* a full queue from which the first message has been evicted by the
\* enqueue of the last one
C3_Witness ==
    /\ nextId = max_queue_size + 2
    /\ lastPublish.to \in Queued
    /\ Len(message_queue) = max_queue_size
    /\ message_queue[1].id = 2
    /\ message_queue[max_queue_size].id = max_queue_size + 1

Announced ==
    /\ Len(wire) >= 4
    /\ SubSeq(wire, 1, 4) = <<Sub(command_topics[1]), Sub(command_topics[2]),
                              Sub(command_topics[3]), online_message>>

\* C4: whenever the client is connected, on the mock transport too, it has
\* subscribed to the three command topics and published the retained
\* `online` status; a flush hands messages over only while connected, hence
\* after them.
C4_AnnouncedWhenConnected == connected => Announced

\* C5 as stated: the run loop never terminates because of an error, every
\* iteration that finds the client disconnected calls connect(), and a
\* disconnected client eventually becomes connected again.
C5_AlwaysReconnects ==
    /\ [][Running => Running']_vars
    /\ [](runIter.disconnected => runIter.connect)
    /\ ((Running /\ ~connected) ~> connected)

\* C5 amended: the same, for a client whose broker library is available
\* (the mock transport is never reconnected by the run loop).
C5_ReconnectsWithBroker ==
    /\ [][Running => Running']_vars
    /\ []((runIter.disconnected /\ MQTT_AVAILABLE) => runIter.connect)
    /\ ((Running /\ MQTT_AVAILABLE /\ ~connected) ~> connected)

\* an iteration of the run loop has found the client disconnected, has called
\* connect(), and the client is connected again
C5_Witness ==
    /\ MQTT_AVAILABLE
    /\ runIter.disconnected
    /\ runIter.connect
    /\ connected
    /\ dcalls > 0

DisconnectReturns ==
    \/ dcalls' = dcalls + 1 /\ dpc' = "idle"
    \/ dpc = "sleep" /\ dpc' = "idle"

\* C6: disconnect() called while connected publishes the retained `offline`
\* status before it closes the transport, and whenever disconnect() returns
\* the client reports connected = false.
C6_DisconnectClearsFlag ==
    [][ /\ (dcalls' = dcalls + 1 /\ connected /\ client # "None")
             => wire' = Append(wire, offline_message)
        /\ DisconnectReturns => ~connected'
      ]_vars

(***************************************************************************)
(* EdgeProcessor: the analysis steps of process_frame.                     *)
(***************************************************************************)
\* bounds of the edge processor model: the clock advances in steps of
\* EdgeTick seconds up to EdgeMaxTime
EdgeTick == 30
EdgeMaxTime == 60

\* self.grid_area (grid.area_sqm)
grid_area == 750

\* what the People Counter does with a frame: it raises, or it reports n
PeopleInputs == {50, 210}
CounterOutcomes ==
    {[fails |-> TRUE, n |-> 0]} \cup {[fails |-> FALSE, n |-> k] : k \in PeopleInputs}

\* class -> confidence in percent, as the Behavior Analyzer returns it
CalmBehavior == [normal |-> 90, panic |-> 5, unusual_gathering |-> 5]
BehaviorInputs ==
    { [normal |-> 10, panic |-> 80, unusual_gathering |-> 10],
      [normal |-> 10, panic |-> 10, unusual_gathering |-> 80] }

\* what the behavior step does with a frame: no full sequence was passed,
\* the analyzer raises, or it returns predictions
BehaviorOutcomes ==
    {[seq |-> FALSE, fails |-> FALSE, pred |-> CalmBehavior],
     [seq |-> TRUE, fails |-> TRUE, pred |-> CalmBehavior]}
    \cup {[seq |-> TRUE, fails |-> FALSE, pred |-> p] : p \in BehaviorInputs}

\* class -> confidence in percent, as the Emergency Detector returns it
EmergencyInputs ==
    { [normal |-> 90, fire |-> 5, smoke |-> 5],
      [normal |-> 20, fire |-> 70, smoke |-> 10],
      [normal |-> 5, fire |-> 90, smoke |-> 5] }

\* what the emergency step does with a frame: the detector raises, or it
\* returns predictions
EmergencyOutcomes ==
    {[fails |-> TRUE, pred |-> [normal |-> 90, fire |-> 5, smoke |-> 5]]}
    \cup {[fails |-> FALSE, pred |-> p] : p \in EmergencyInputs}

\* EdgeProcessor.count_people: a failure of the counter is caught and
\* reported as no detections
count_people(fails, n) == IF fails THEN 0 ELSE n

\* EdgeProcessor.get_behavior_severity, confidence in percent
get_behavior_severity(behavior, confidence) ==
    LET base == CASE behavior = "panic" -> "critical"
                  [] behavior = "running" -> "high"
                  [] behavior = "fighting" -> "critical"
                  [] behavior = "falling" -> "high"
                  [] behavior = "unusual_gathering" -> "moderate"
                  [] OTHER -> "moderate"
    IN  IF confidence > 90 /\ base = "moderate" THEN "high"
        ELSE IF confidence > 90 /\ base = "high" THEN "critical"
        ELSE base

\* EdgeProcessor.analyze_behavior: the non-normal classes above 0.7, or
\* nothing when the analysis fails
analyze_behavior(fails, pred) ==
    IF fails THEN {}
    ELSE { [behavior |-> b, confidence |-> pred[b],
            severity |-> get_behavior_severity(b, pred[b])] :
           b \in {c \in DOMAIN pred : c # "normal" /\ pred[c] > 70} }

\* EdgeProcessor.detect_emergencies: the strongest non-normal class decides
detect_emergencies(fails, pred) ==
    IF fails THEN [status |-> "error", type |-> "None", confidence |-> 0]
    ELSE LET classes == DOMAIN pred \ {"normal"}
             top == CHOOSE c \in classes : \A d \in classes : pred[d] <= pred[c]
         IN  IF pred[top] > 80
             THEN [status |-> "emergency", type |-> top,
                   confidence |-> pred[top]]
             ELSE IF pred[top] > 60
             THEN [status |-> "warning", type |-> top,
                   confidence |-> pred[top]]
             ELSE [status |-> "clear", type |-> "None", confidence |-> 0]

\* the bucketing with the comparisons made strict
density_level_strict(th, people_count) ==
    IF people_count < th.normal THEN "low"
    ELSE IF people_count < th.moderate THEN "moderate"
    ELSE IF people_count < th.high THEN "high"
    ELSE "critical"

\* EdgeProcessor.calculate_crowd_density: the level
density_level(th, people_count) ==
    IF people_count <= th.normal THEN "low"
    ELSE IF people_count <= th.moderate THEN "moderate"
    ELSE IF people_count <= th.high THEN "high"
    ELSE "critical"

\* EdgeProcessor.calculate_crowd_density: the percentage, in hundredths
\* (round(min(count / area / 4.0 * 100, 100), 2))
density_percentage(people_count) ==
    LET num == people_count * 10000
        den == grid_area * 4
        rounded == (2 * num + den) \div (2 * den)
    IN  IF rounded > 10000 THEN 10000 ELSE rounded

\* EdgeProcessor.get_threshold_status
get_threshold_status(th, people_count) ==
    IF people_count <= th.normal THEN "normal"
    ELSE IF people_count <= th.moderate THEN "moderate"
    ELSE IF people_count <= th.high THEN "high"
    ELSE "critical"

\* comparing a count with a threshold that is no number raises TypeError
ThresholdsRaise(th) == ~th.numeric

(***************************************************************************)
(* EdgeProcessor: alert generation and cooldown.                           *)
(***************************************************************************)
DensityCooldown == 60
BehaviorCooldown == 30
EmergencyCooldown == 10

\* the cooldown generate_alerts sets for an alert key <<kind, name>>
CooldownSeconds(key) ==
    CASE key[1] = "density" -> DensityCooldown
      [] key[1] = "behavior" -> BehaviorCooldown
      [] OTHER -> EmergencyCooldown

\* the cooldown check with the comparison turned around
is_alert_in_cooldown_inverted(cd, key) ==
    IF key \notin DOMAIN cd THEN FALSE ELSE now >= cd[key]

\* EdgeProcessor.is_alert_in_cooldown
is_alert_in_cooldown(cd, key) ==
    IF key \notin DOMAIN cd THEN FALSE ELSE now < cd[key]

\* EdgeProcessor.set_alert_cooldown
set_alert_cooldown(cd, key, seconds) ==
    [k \in DOMAIN cd \cup {key} |-> IF k = key THEN now + seconds ELSE cd[k]]

\* the alert keys whose condition holds in a frame (generate_alerts:
\* threshold status high or critical, behavior severity high or critical,
\* emergency status warning or emergency)
AlertConditions(th, people_count, behavior_alerts, emergency_status) ==
    LET ts == get_threshold_status(th, people_count)
    IN  (IF ts \in {"high", "critical"} THEN {<<"density", ts>>} ELSE {})
        \cup { <<"behavior", a.behavior>> :
               a \in {x \in behavior_alerts :
                        x.severity \in {"high", "critical"}} }
        \cup (IF emergency_status.status \in {"warning", "emergency"}
              THEN {<<"emergency", emergency_status.type>>} ELSE {})

\* EdgeProcessor.generate_alerts: the keys of the alerts generated, those
\* whose condition holds and that are not in cooldown
generate_alerts(cd, th, people_count, behavior_alerts, emergency_status) ==
    { k \in AlertConditions(th, people_count, behavior_alerts,
                            emergency_status) :
        ~is_alert_in_cooldown(cd, k) }

\* the cooldown map after the alerts with keys ks have been generated
RECURSIVE SetCooldowns(_, _)
SetCooldowns(cd, ks) ==
    IF ks = {} THEN cd
    ELSE LET k == CHOOSE x \in ks : TRUE
         IN  SetCooldowns(set_alert_cooldown(cd, k, CooldownSeconds(k)),
                          ks \ {k})

\* the history of the alerts after those with keys ks have been generated
Stamp(hist, ks) ==
    [k \in DOMAIN hist \cup ks |-> IF k \in ks THEN now ELSE hist[k]]

\* generate_alerts publishes every alert through mqtt_client.publish, which
\* never raises
RECURSIVE PublishAlerts(_, _, _)
PublishAlerts(q, n, out) ==
    IF n = 0 THEN q
    ELSE PublishAlerts(
            publish(q, [id |-> 0, topic |-> DataTopic, ts |-> now], out).queue,
            n - 1, out)

\* the save decision with the emergency status left out
save_wanted_alerts_only(alerts, emergency_status) == alerts # {}

\* process_frame step 6: whether save_critical_frame is called
save_wanted(alerts, emergency_status) ==
    alerts # {} \/ emergency_status.status # "clear"

\* the degraded status with the count reset
create_error_status_zero(lpc) ==
    [kind |-> "error", people_count |-> 0, level |-> "unknown",
     threshold_status |-> "unknown", emergency |-> "unknown", alerts |-> {}]

\* EdgeProcessor.create_error_status
create_error_status(lpc) ==
    [kind |-> "error", people_count |-> lpc, level |-> "unknown",
     threshold_status |-> "unknown", emergency |-> "unknown", alerts |-> {}]

\* EdgeProcessor.process_frame: one call, with what the three models report
\* (cf, bf, ef: the model raises; n, bp, ep: what it returns; seqFull: a
\* full 16-frame sequence was passed)
process_frame(cf, n, seqFull, bf, bp, ef, ep) ==
    LET people_count == count_people(cf, n)
        behavior_alerts == IF seqFull THEN analyze_behavior(bf, bp) ELSE {}
        emergency_status == detect_emergencies(ef, ep)
        th == density_thresholds
    IN  IF ThresholdsRaise(th)
        THEN \* calculate_crowd_density raises: the handler of process_frame
             /\ grid_status' = create_error_status(last_people_count)
             /\ frame' = [evaluated |-> FALSE, cond |-> {}, saved |-> FALSE,
                          emergency |-> emergency_status.status,
                          failure |-> "density"]
             /\ UNCHANGED <<last_people_count, alert_cooldown, lastAlertAt,
                            message_queue>>
        ELSE LET alerts == generate_alerts(alert_cooldown, th, people_count,
                                           behavior_alerts, emergency_status)
             IN  /\ alert_cooldown' = SetCooldowns(alert_cooldown, alerts)
                 /\ lastAlertAt' = Stamp(lastAlertAt, alerts)
                 /\ message_queue' \in
                       { PublishAlerts(message_queue, Cardinality(alerts),
                                       out) : out \in SendOutcomes }
                 /\ grid_status' =
                       [kind |-> "ok", people_count |-> people_count,
                        level |-> density_level(th, people_count),
                        threshold_status |->
                            get_threshold_status(th, people_count),
                        emergency |-> emergency_status.status,
                        alerts |-> alerts]
                 /\ frame' = [evaluated |-> TRUE,
                              cond |-> AlertConditions(th, people_count,
                                          behavior_alerts, emergency_status),
                              saved |-> save_wanted(alerts, emergency_status),
                              emergency |-> emergency_status.status,
                              failure |-> IF cf THEN "counter" ELSE "none"]
                 /\ last_people_count' = people_count

ProcessFrame ==
    /\ \E c \in CounterOutcomes, b \in BehaviorOutcomes,
          e \in EmergencyOutcomes :
         process_frame(c.fails, c.n, b.seq, b.fails, b.pred, e.fails, e.pred)
    /\ fbit' = ~fbit
    /\ UNCHANGED <<MQTT_AVAILABLE, client, link, connected, wire, flush, rpc,
                   dpc, nextId, lastPublish, lastFlushed, runIter, dcalls>>
    /\ UNCHANGED <<density_thresholds, now, densVars, appVars, apiVars, libVars>>

\* handle_mqtt_command, update_config: Config.update merges the supplied
\* document into the configuration in place, and with it the thresholds
\* map the processor took from it
UpdateConfig ==
    /\ density_thresholds' \in {DefaultThresholds, InvalidThresholds}
    /\ density_thresholds' # density_thresholds
    /\ UNCHANGED <<mqttVars, now, densVars, appVars, apiVars, libVars>>
    /\ UNCHANGED <<last_people_count, alert_cooldown, grid_status, frame,
                   fbit, lastAlertAt>>

\* time passes
TickEdge ==
    /\ now + EdgeTick <= EdgeMaxTime
    /\ now' = now + EdgeTick
    /\ UNCHANGED <<mqttVars, edgeVars, densVars, appVars, apiVars, libVars>>

InitEdge ==
    /\ MQTT_AVAILABLE = TRUE
    /\ InitClient
    /\ now = 0
    /\ InitProcessor
    /\ InitDensityIdle
    /\ InitApp
    /\ InitServer
    /\ InitLibraries

NextEdge ==
    \/ ProcessFrame
    \/ UpdateConfig
    \/ TickEdge

SpecEdge == InitEdge /\ [][NextEdge]_vars

(***************************************************************************)
(* The density bucketing applied to a pair of people counts.               *)
(***************************************************************************)
\* largest people count of the pairs
MaxPeople == 300

\* calculate_crowd_density and get_threshold_status on one count, as
\* process_frame puts them into crowd_density
crowd_density(th, people_count) ==
    [level |-> density_level(th, people_count),
     percentage |-> density_percentage(people_count),
     threshold_status |-> get_threshold_status(th, people_count)]

ComputeDensity ==
    /\ Len(dOut) < Len(dIn)
    /\ dOut' = Append(dOut, crowd_density(density_thresholds,
                                          dIn[Len(dOut) + 1]))
    /\ UNCHANGED <<mqttVars, edgeVars, now, dIn, appVars, apiVars, libVars>>

InitDensity ==
    /\ MQTT_AVAILABLE = TRUE
    /\ InitClient
    /\ now = 0
    /\ InitProcessor
    /\ dIn \in {<<a, b>> : a \in 0..MaxPeople, b \in 0..MaxPeople}
    /\ dIn[1] <= dIn[2]
    /\ dOut = <<>>
    /\ InitApp
    /\ InitServer
    /\ InitLibraries

NextDensity == ComputeDensity

SpecDensity == InitDensity /\ [][NextDensity]_vars

(***************************************************************************)
(* Claims about the edge processor.                                        *)
(***************************************************************************)
\* the cooldown the alert policy states for an alert key
StatedCooldown(key) ==
    CASE key[1] = "density" -> 60
      [] key[1] = "behavior" -> 30
      [] key[1] = "emergency" -> 10

\* an alert with this key was generated less than its cooldown ago
RecentlyAlerted(key) ==
    /\ key \in DOMAIN lastAlertAt
    /\ now < lastAlertAt[key] + StatedCooldown(key)

\* C7: in every frame whose alerts are evaluated, an alert with a key is
\* generated exactly when the key's condition holds and no alert with the
\* same key was generated within the key's cooldown (60 s density, 30 s
\* behavior, 10 s emergency); the history of the other keys plays no part.
C7_AlertCooldown ==
    [][(fbit' # fbit /\ frame'.evaluated) =>
         \A k \in frame'.cond \cup grid_status'.alerts \cup DOMAIN lastAlertAt :
            (k \in grid_status'.alerts) <=>
                (k \in frame'.cond /\ ~RecentlyAlerted(k))]_vars

\* a frame 30 s after a density and an emergency alert: the density alert
\* is suppressed, the emergency alert is generated again
C7_Witness ==
    /\ frame.evaluated
    /\ <<"density", "critical">> \in DOMAIN lastAlertAt
    /\ now = lastAlertAt[<<"density", "critical">>] + 30
    /\ <<"density", "critical">> \in frame.cond \ grid_status.alerts
    /\ <<"emergency", "fire">> \in grid_status.alerts
    /\ alert_cooldown[<<"emergency", "fire">>] = now + 10

\* C8 (as stated): process_frame always returns a status, and in a frame
\* with an internal failure, a People Counter failure included, the status
\* carries the last known people count and the last known count is unchanged.
C8_FailureKeepsLastCount ==
    [][fbit' # fbit =>
         /\ grid_status'.kind \in {"ok", "error"}
         /\ frame'.failure # "none" =>
              /\ grid_status'.people_count = last_people_count
              /\ last_people_count' = last_people_count]_vars

\* C8 (amended): process_frame always returns a status; a frame that ends in
\* the handler of process_frame returns the last known people count and
\* leaves it unchanged; a People Counter failure does not end there: the
\* frame completes with a count of 0, which becomes the last known count.
C8_HandlerKeepsLastCount ==
    [][fbit' # fbit =>
         /\ grid_status'.kind \in {"ok", "error"}
         /\ grid_status'.kind = "error" =>
              /\ frame'.failure = "density"
              /\ grid_status'.people_count = last_people_count
              /\ last_people_count' = last_people_count
         /\ grid_status'.kind = "ok" =>
              last_people_count' = grid_status'.people_count
         /\ frame'.failure = "counter" =>
              /\ grid_status'.kind = "ok"
              /\ grid_status'.people_count = 0]_vars

\* a failed frame reporting the count of an earlier completed frame
C8_Witness ==
    /\ grid_status.kind = "error"
    /\ frame.failure = "density"
    /\ grid_status.people_count = 210
    /\ last_people_count = 210

Rank(level) ==
    CASE level \in {"low", "normal"} -> 0
      [] level = "moderate" -> 1
      [] level = "high" -> 2
      [] level = "critical" -> 3

\* C9: with the thresholds 60/100/150/200 the counts 0 and 60 are low
\* (normal), 61 and 100 moderate, 101 and 150 high, 151 and 300 critical;
\* the bucket is monotone in the count; level and threshold_status name the
\* same bucket.
C9_DensityBuckets ==
    /\ \A i \in 1..Len(dOut) :
          LET n == dIn[i]
              r == dOut[i]
          IN  /\ Rank(r.level) = Rank(r.threshold_status)
              /\ (r.level = "low") = (r.threshold_status = "normal")
              /\ n \in {0, 60} => r.level = "low"
              /\ n \in {61, 100} => r.level = "moderate"
              /\ n \in {101, 150} => r.level = "high"
              /\ n \in {151, 300} => r.level = "critical"
    /\ Len(dOut) = 2 => Rank(dOut[1].level) <= Rank(dOut[2].level)

\* both sides of a bucket border computed
C9_Witness ==
    /\ dIn = <<60, 61>>
    /\ Len(dOut) = 2
    /\ dOut[1].threshold_status = "normal"
    /\ dOut[2].level = "moderate"

\* C10 (as stated): in every process_frame call the critical-frame save is
\* invoked exactly when the call generated an alert or its emergency status
\* is not clear.
C10_SaveIffCritical ==
    [][fbit' # fbit =>
         (frame'.saved <=>
            (grid_status'.alerts # {} \/ frame'.emergency # "clear"))]_vars

\* C10 (amended): in every process_frame call that returns a full status
\* the save is invoked exactly when the call generated an alert or its
\* emergency status is not clear, so a frame whose only condition is a
\* density status in cooldown is not saved; a call that ends in the handler
\* of process_frame saves nothing.
C10_SaveIffCriticalCompleted ==
    [][fbit' # fbit =>
         IF grid_status'.kind = "ok"
         THEN /\ frame'.saved <=>
                   (grid_status'.alerts # {} \/ frame'.emergency # "clear")
              /\ (/\ frame'.cond \subseteq {<<"density", "high">>,
                                            <<"density", "critical">>}
                  /\ grid_status'.alerts = {}
                  /\ frame'.emergency = "clear") => ~frame'.saved
         ELSE ~frame'.saved]_vars

\* a completed frame with a critical density in cooldown and nothing else
C10_Witness ==
    /\ grid_status.kind = "ok"
    /\ frame.cond = {<<"density", "critical">>}
    /\ RecentlyAlerted(<<"density", "critical">>)
    /\ grid_status.alerts = {}
    /\ frame.emergency = "clear"
    /\ ~frame.saved

(***************************************************************************)
(* DHSILEDEdgeApp: initialize, run, the loops, the commands, shutdown.     *)
(***************************************************************************)
\* number of restart commands the model lets arrive
MaxRestarts == 1

HealthTopic == "dhsiled/grids/G01/health"

\* what setup_camera can do
CameraOutcomes == {"ok", "fail"}

\* DHSILEDEdgeApp.initialize, the messaging part: a new MQTTClient, for
\* which no run() task exists, and connect() on it
new_client(out) ==
    /\ message_queue' = <<>>
    /\ flush' = <<>>
    /\ rpc' = "init"
    /\ dpc' = "idle"
    /\ wire' = <<>>
    /\ IF ~MQTT_AVAILABLE
       THEN /\ client' = "mock"
            /\ link' = "up"
            /\ connected' = TRUE
       ELSE /\ client' = "paho"
            /\ link' = IF out = "ok" THEN "pending" ELSE "down"
            /\ connected' = FALSE

\* DHSILEDEdgeApp.initialize: the camera first, then the messaging client;
\* the first failure is re-raised
initialize(cam, out) ==
    IF cam = "fail"
    THEN /\ camera' = "closed"
         /\ UNCHANGED <<client, link, connected, wire, message_queue, flush,
                        rpc, dpc>>
    ELSE /\ camera' = "open"
         /\ new_client(out)

InitializeRaises(cam, out) == cam = "fail" \/ out = "raise"

\* MQTTClient.disconnect as a whole: po is what the publish of the offline
\* status does, co what client.disconnect() does
disconnect(po, co) ==
    IF connected /\ client # "None"
    THEN IF po = "raise"
         THEN UNCHANGED <<connected, link, wire>>
         ELSE /\ wire' = IF po = "ok" THEN Append(wire, offline_message)
                         ELSE wire
              /\ link' = IF co = "ok" THEN "down" ELSE link
              /\ connected' = IF co = "ok" THEN FALSE ELSE connected
    ELSE /\ connected' = FALSE
         /\ UNCHANGED <<link, wire>>

\* DHSILEDEdgeApp.shutdown
shutdown(po, co) ==
    /\ running' = FALSE
    /\ camera' = IF camera = "None" THEN "None" ELSE "released"
    /\ disconnect(po, co)
    /\ shutdowns' = shutdowns + 1

\* main() with the return value left at 0 when run() raises
main_returns_zero_after_start(cause) ==
    CASE cause = "init" -> "1"
      [] cause = "task" -> "0"
      [] cause = "caught" -> "0"
      [] OTHER -> "raised"

\* main(): what it returns, by the way initialize() or run() ended; a
\* cancellation is no Exception and passes through main()
main_returns(cause) ==
    CASE cause = "init" -> "1"
      [] cause = "task" -> "1"
      [] cause = "caught" -> "0"
      [] OTHER -> "raised"

\* what the transport does with the publishes of the application in
\* SpecApp: paho accepts them (the failures are the subject of SpecMqtt)
AppSendOutcomes == IF client = "mock" THEN {"mock"} ELSE {"ok"}

\* a publish() call of the application on the client it holds (the
\* history of the publish calls is kept in SpecMqtt only)
AppPublish(topic, out) ==
    /\ message_queue' =
          publish(message_queue, [id |-> 0, topic |-> topic, ts |-> now],
                  out).queue
    /\ UNCHANGED lastPublish

\* main(): app.initialize()
AppInitialize ==
    /\ mainPc = "init"
    /\ \E cam \in CameraOutcomes, out \in ConnectOutcomes :
         /\ initialize(cam, out)
         /\ IF InitializeRaises(cam, out)
            THEN /\ mainPc' = "done"
                 /\ endCause' = "init"
                 /\ exitCode' = main_returns("init")
            ELSE /\ mainPc' = "run"
                 /\ UNCHANGED <<endCause, exitCode>>
    /\ UNCHANGED <<running, processing_enabled, videoPc, healthPc, cmdPc,
                   restarts, restartOk, healthIter, sbit, shutdowns>>
    /\ UNCHANGED <<MQTT_AVAILABLE, nextId, lastPublish, lastFlushed, runIter,
                   dcalls, now, edgeVars, densVars, apiVars, libVars>>

\* DHSILEDEdgeApp.run up to asyncio.gather: the three tasks are created
AppRun ==
    /\ mainPc = "run"
    /\ running' = TRUE
    /\ videoPc' = "top"
    /\ healthPc' = "top"
    /\ rpc' = "top"
    /\ mainPc' = "gather"
    /\ UNCHANGED <<processing_enabled, camera, endCause, exitCode, cmdPc,
                   restarts, restartOk, healthIter, sbit, shutdowns>>
    /\ UNCHANGED <<MQTT_AVAILABLE, client, link, connected, message_queue,
                   wire, flush, dpc, nextId, lastPublish, lastFlushed,
                   runIter, dcalls, now, edgeVars, densVars, apiVars, libVars>>

\* what self.camera.read() can do: a released capture yields no frame
CameraReads == IF camera = "open" THEN {"frame", "miss", "raise"}
               ELSE {"miss"}

\* the video loop with the processing-enabled flag ignored
video_after_read_unconditional(r) ==
    CASE r = "raise" -> "failed"
      [] r = "miss" -> "retry"
      [] OTHER -> "processing"

\* process_video_stream after camera.read(): an exception leaves the loop
\* (it is logged and re-raised), a miss is retried after 0.1 s, a frame is
\* passed to process_frame when processing is enabled
video_after_read(r) ==
    CASE r = "raise" -> "failed"
      [] r = "miss" -> "retry"
      [] processing_enabled -> "processing"
      [] OTHER -> "sleep"

appRest == <<MQTT_AVAILABLE, nextId, lastFlushed, runIter, dcalls, now,
             edgeVars, densVars, apiVars, libVars>>

\* process_video_stream: the loop condition and the frame capture
VideoRead ==
    /\ videoPc = "top"
    /\ IF ~running
       THEN videoPc' = "done"
       ELSE \E r \in CameraReads : videoPc' = video_after_read(r)
    /\ UNCHANGED <<running, processing_enabled, camera, mainPc, endCause,
                   exitCode, healthPc, cmdPc, restarts, restartOk, healthIter,
                   sbit, shutdowns>>
    /\ UNCHANGED <<client, link, connected, message_queue, wire, flush, rpc,
                   dpc, lastPublish, appRest>>

\* process_video_stream: process_frame has returned (it never raises), the
\* status is published on <base>/status
VideoPublish ==
    /\ videoPc = "processing"
    /\ \E out \in AppSendOutcomes : AppPublish(StatusTopic, out)
    /\ sbit' = ~sbit
    /\ videoPc' = "sleep"
    /\ UNCHANGED <<running, processing_enabled, camera, mainPc, endCause,
                   exitCode, healthPc, cmdPc, restarts, restartOk, healthIter,
                   shutdowns>>
    /\ UNCHANGED <<client, link, connected, wire, flush, rpc, dpc, appRest>>

\* process_video_stream: the sleep at the end of an iteration is over
VideoWake ==
    /\ videoPc \in {"sleep", "retry"}
    /\ videoPc' = "top"
    /\ UNCHANGED <<running, processing_enabled, camera, mainPc, endCause,
                   exitCode, healthPc, cmdPc, restarts, restartOk, healthIter,
                   sbit, shutdowns>>
    /\ UNCHANGED <<client, link, connected, message_queue, wire, flush, rpc,
                   dpc, lastPublish, appRest>>

\* a value of a health record: a number, or a dict of numbers
Num(n) == [kind |-> "number", value |-> n]
Dict(p) == [kind |-> "dict", percentage |-> p]

\* the records DeviceMonitor.get_health_status returns: memory_usage and
\* disk_usage are dicts, in the error record too
HealthRecords ==
    { [status |-> "ok", cpu_temperature |-> Num(45),
       memory_usage |-> Dict(40), disk_usage |-> Dict(50)],
      [status |-> "ok", cpu_temperature |-> Num(85),
       memory_usage |-> Dict(95), disk_usage |-> Dict(90)],
      [status |-> "error", cpu_temperature |-> Num(0),
       memory_usage |-> Dict(0), disk_usage |-> Dict(0)] }

\* `value > number` raises TypeError unless the value is a number
CompareRaises(v) == v.kind # "number"

\* monitor_device_health: the three threshold checks before the publish
health_checks_raise(h) ==
    \/ CompareRaises(h.cpu_temperature)
    \/ CompareRaises(h.memory_usage)
    \/ CompareRaises(h.disk_usage)

\* monitor_device_health: one iteration up to its 30 s sleep
HealthIteration ==
    /\ healthPc = "top"
    /\ IF ~running
       THEN /\ healthPc' = "done"
            /\ UNCHANGED <<healthIter, message_queue, lastPublish>>
       ELSE /\ healthPc' = "sleep"
            /\ \E h \in HealthRecords :
                 IF health_checks_raise(h)
                 THEN /\ healthIter' = [record |-> TRUE, published |-> FALSE]
                      /\ UNCHANGED <<message_queue, lastPublish>>
                 ELSE /\ healthIter' = [record |-> TRUE, published |-> TRUE]
                      /\ \E out \in AppSendOutcomes : AppPublish(HealthTopic, out)
    /\ UNCHANGED <<running, processing_enabled, camera, mainPc, endCause,
                   exitCode, videoPc, cmdPc, restarts, restartOk, sbit,
                   shutdowns>>
    /\ UNCHANGED <<client, link, connected, wire, flush, rpc, dpc, appRest>>

\* monitor_device_health: the 30 s sleep is over
HealthWake ==
    /\ healthPc = "sleep"
    /\ healthPc' = "top"
    /\ UNCHANGED <<running, processing_enabled, camera, mainPc, endCause,
                   exitCode, videoPc, cmdPc, restarts, restartOk, healthIter,
                   sbit, shutdowns>>
    /\ UNCHANGED <<client, link, connected, message_queue, wire, flush, rpc,
                   dpc, lastPublish, appRest>>

\* a command can arrive: a run loop delivers messages to handle_mqtt_command
\* (the loop of the client in use, or after a restart the loop of the
\* replaced client, which goes on and reconnects)
CommandsArrive ==
    /\ mainPc = "gather"
    /\ MQTT_AVAILABLE
    /\ (Running /\ connected) \/ restarts > 0

\* handle_mqtt_command: start_processing / stop_processing
HandleProcessingCommand ==
    /\ CommandsArrive
    /\ \E command \in {"start_processing", "stop_processing"} :
         processing_enabled' = (command = "start_processing")
    /\ UNCHANGED <<running, camera, mainPc, endCause, exitCode, videoPc,
                   healthPc, cmdPc, restarts, restartOk, healthIter, sbit,
                   shutdowns>>
    /\ UNCHANGED <<client, link, connected, message_queue, wire, flush, rpc,
                   dpc, lastPublish, appRest>>

\* handle_mqtt_command: restart, up to the 2 s pause after shutdown()
RestartBegin ==
    /\ CommandsArrive
    /\ cmdPc = "idle"
    /\ restarts < MaxRestarts
    /\ \E po \in DiscPublishOutcomes, co \in DiscCloseOutcomes :
         shutdown(po, co)
    /\ cmdPc' = "pause"
    /\ restarts' = restarts + 1
    /\ UNCHANGED <<processing_enabled, mainPc, endCause, exitCode, videoPc,
                   healthPc, restartOk, healthIter, sbit>>
    /\ UNCHANGED <<client, message_queue, flush, rpc, dpc, lastPublish,
                   appRest>>

\* restart after the pause: initialize(); a failure is logged by
\* handle_mqtt_command
RestartFinish ==
    /\ mainPc = "gather"
    /\ cmdPc = "pause"
    /\ \E cam \in CameraOutcomes, out \in ConnectOutcomes :
         /\ initialize(cam, out)
         /\ restartOk' = ~InitializeRaises(cam, out)
    /\ cmdPc' = "idle"
    /\ UNCHANGED <<running, processing_enabled, mainPc, endCause, exitCode,
                   videoPc, healthPc, restarts, healthIter, sbit, shutdowns>>
    /\ UNCHANGED <<lastPublish, appRest>>

\* how asyncio.gather in run() can end: with the exception of a failed
\* task, or by an interrupt, which reaches run() as KeyboardInterrupt
\* ("caught") or as the cancellation of the main task ("cancelled")
RunEndCauses ==
    (IF videoPc = "failed" THEN {"task"} ELSE {}) \cup {"caught", "cancelled"}

\* DHSILEDEdgeApp.run from the end of gather: the finally clause calls
\* shutdown(); main() returns and the event loop cancels what is left
RunEnds ==
    /\ mainPc = "gather"
    /\ \E cause \in RunEndCauses :
         /\ endCause' = cause
         /\ exitCode' = main_returns(cause)
    /\ \E po \in DiscPublishOutcomes, co \in DiscCloseOutcomes :
         shutdown(po, co)
    /\ mainPc' = "done"
    /\ videoPc' = IF videoPc \in {"failed", "done"} THEN videoPc
                  ELSE "cancelled"
    /\ healthPc' = IF healthPc = "done" THEN "done" ELSE "cancelled"
    /\ cmdPc' = "idle"
    /\ rpc' = "dead"
    /\ flush' = <<>>
    /\ UNCHANGED <<processing_enabled, restarts, restartOk, healthIter, sbit>>
    /\ UNCHANGED <<client, message_queue, dpc, lastPublish, appRest>>

InitAppSpec ==
    /\ MQTT_AVAILABLE \in BOOLEAN
    /\ InitClient
    /\ now = 0
    /\ InitProcessor
    /\ InitDensityIdle
    /\ InitApp
    /\ InitServer
    /\ InitLibraries

NextApp ==
    \/ AppInitialize
    \/ AppRun
    \/ VideoRead
    \/ VideoPublish
    \/ VideoWake
    \/ HealthIteration
    \/ HealthWake
    \/ HandleProcessingCommand
    \/ RestartBegin
    \/ RestartFinish
    \/ RunEnds
    \/ RunTop
    \/ RunLoopIdle
    \/ RunLoopConnAck
    \/ RunLoopDisconnected
    \/ FlushStep

SpecApp == InitAppSpec /\ [][NextApp]_vars

(***************************************************************************)
(* Claims about the edge application.                                      *)
(***************************************************************************)
\* C11: once a restart command has been handled with a successful
\* initialize, the application runs again: the running flag is set, the
\* video loop and the health loop go on, and the run loop of the client in
\* use is active.
C11_RunningAfterRestart ==
    (restartOk /\ mainPc = "gather") =>
        /\ running
        /\ videoPc \in {"top", "processing", "sleep", "retry"}
        /\ healthPc \in {"top", "sleep"}
        /\ Running

\* C12: a health loop iteration that got a health record has published it.
C12_HealthRecordPublished == healthIter.record => healthIter.published

\* C13: no loop ends because of an exception raised in one of its
\* iterations: the video loop never fails, and while the application runs
\* the health loop and the run loop of the client are alive.
C13_LoopsSurviveExceptions ==
    /\ videoPc # "failed"
    /\ (mainPc = "gather" /\ running) =>
          (healthPc \in {"top", "sleep"} /\ Running)

\* the video loop passes a frame to process_frame in this step
InvokesProcessFrame == videoPc = "top" /\ videoPc' = "processing"

\* a start_processing or stop_processing command changes nothing but the
\* flag
OnlyTheFlagChanges ==
    processing_enabled' # processing_enabled =>
        UNCHANGED <<mqttVars, edgeVars, densVars, apiVars, libVars, now, running,
                    camera, mainPc, endCause, exitCode, videoPc, healthPc,
                    cmdPc, restarts, restartOk, healthIter, sbit, shutdowns>>

\* with processing enabled no captured frame is skipped, and the status of
\* every processed frame is published
PublishingResumes ==
    /\ (videoPc = "top" /\ videoPc' = "sleep") => ~processing_enabled
    /\ (videoPc = "processing" /\ videoPc' = "sleep") => sbit' # sbit

\* C14 (as stated): while processing is disabled the video loop neither
\* invokes process_frame nor publishes a status; the two commands change
\* only the flag; after start_processing every captured frame is processed
\* and its status published.
C14_NoStatusWhileStopped ==
    [][/\ ~processing_enabled => (~InvokesProcessFrame /\ sbit' = sbit)
       /\ OnlyTheFlagChanges
       /\ PublishingResumes]_vars

\* C14 (amended): while processing is disabled the video loop does not
\* invoke process_frame, and the only status it publishes is that of the
\* frame that was inside process_frame when stop_processing was handled;
\* the rest as stated.
C14_NoNewFrameWhileStopped ==
    [][/\ ~processing_enabled =>
            /\ ~InvokesProcessFrame
            /\ sbit' # sbit => (videoPc = "processing" /\ videoPc' = "sleep")
       /\ OnlyTheFlagChanges
       /\ PublishingResumes]_vars

\* stop_processing has been handled while a frame was inside process_frame
C14_Witness ==
    /\ running
    /\ ~processing_enabled
    /\ videoPc = "processing"

OfflineCount ==
    Cardinality({i \in 1..Len(wire) : wire[i] = offline_message})

\* C15: when run() has ended, shutdown() has been executed; and the
\* `offline` status is published at most once on a connection, however
\* often shutdown() is called.
C15_ShutdownIdempotent ==
    /\ (mainPc = "done" /\ endCause # "init") => (shutdowns > 0 /\ ~running)
    /\ OfflineCount <= 1

MaxBusMsgs == 3
\* capacity of the alert ring (1000 in the source) and of the health ring
\* (500 in the source), scaled down
AlertRingSize == 2
HealthRingSize == 1

GridIds == {"G01", "health-bay"}

\* the characters of the words topics are made of
Chars(w) ==
    CASE w = "dhsiled"    -> <<"d", "h", "s", "i", "l", "e", "d">>
      [] w = "grids"      -> <<"g", "r", "i", "d", "s">>
      [] w = "system"     -> <<"s", "y", "s", "t", "e", "m">>
      [] w = "G01"        -> <<"G", "0", "1">>
      [] w = "health-bay" -> <<"h", "e", "a", "l", "t", "h", "-", "b", "a",
                               "y">>
      [] w = "status"     -> <<"s", "t", "a", "t", "u", "s">>
      [] w = "alerts"     -> <<"a", "l", "e", "r", "t", "s">>
      [] w = "health"     -> <<"h", "e", "a", "l", "t", "h">>
      [] w = "commands"   -> <<"c", "o", "m", "m", "a", "n", "d", "s">>
      [] w = "broadcast"  -> <<"b", "r", "o", "a", "d", "c", "a", "s", "t">>

\* a topic is kept as its levels; Text is the topic string, its levels
\* joined by "/"
RECURSIVE Text(_)
Text(levels) ==
    IF Len(levels) = 0 THEN <<>>
    ELSE IF Len(levels) = 1 THEN Chars(levels[1])
    ELSE Chars(levels[1]) \o <<"/">> \o Text(Tail(levels))

GridTopic(g, leaf) == <<"dhsiled", "grids", g, leaf>>
SystemTopic(leaf) == <<"dhsiled", "system", leaf>>

\* the topics under dhsiled/# the edge nodes and the server publish on
Topics ==
    {GridTopic(g, leaf) : g \in GridIds,
                          leaf \in {"status", "alerts", "health", "commands"}}
    \cup {SystemTopic("commands"), SystemTopic("broadcast")}

\* Python's `word in text` on strings
Contains(word, text) ==
    \E i \in 1..(Len(text) - Len(word) + 1) :
        SubSeq(text, i, i + Len(word) - 1) = word

\* Python's text.split(sep)
RECURSIVE split(_, _)
split(text, sep) ==
    IF \A i \in 1..Len(text) : text[i] # sep THEN <<text>>
    ELSE LET i == CHOOSE k \in 1..Len(text) :
                      /\ text[k] = sep
                      /\ \A j \in 1..(k - 1) : text[j] # sep
         IN <<SubSeq(text, 1, i - 1)>>
                \o split(SubSeq(text, i + 1, Len(text)), sep)

\* the branch on_mqtt_message takes for a topic
dispatch(topic) ==
    IF Contains(Chars("status"), Text(topic)) THEN "status"
    ELSE IF Contains(Chars("alerts"), Text(topic)) THEN "alerts"
    ELSE IF Contains(Chars("health"), Text(topic)) THEN "health"
    ELSE "none"

\* topic.split('/')[2]
grid_id_of(topic) == split(Text(topic), "/")[3]

\* grid_states[key] = payload
Put(states, key, payload) ==
    [k \in (DOMAIN states) \cup {key} |->
        IF k = key THEN payload ELSE states[k]]

\* append, then pop(0) when the ring is over its capacity; the variant
\* refuses the new entry instead
ring_append_keep_oldest(ring, entry, capacity) ==
    IF Len(ring) + 1 > capacity THEN ring ELSE Append(ring, entry)

ring_append(ring, entry, capacity) ==
    LET r == Append(ring, entry)
    IN IF Len(r) > capacity THEN Tail(r) ELSE r

\* the alert ring entry of a payload: received_at is stamped; the
\* acknowledgement fields are not there yet
AlertEntry(payload) ==
    [id |-> payload.id, received_at |-> TRUE, acknowledged |-> FALSE,
     acknowledged_at |-> FALSE, acknowledged_by |-> "unset"]

HealthEntry(payload, key) == [id |-> payload.id, grid_id |-> key]

apiRest == <<mqttVars, edgeVars, densVars, appVars, libVars, now>>

\* on_mqtt_message: one bus message, a JSON object, is handled
on_mqtt_message(topic, payload) ==
    LET branch == dispatch(topic)
    IN /\ grid_states' =
              IF branch = "status"
              THEN Put(grid_states, grid_id_of(topic), payload)
              ELSE grid_states
       /\ alert_history' =
              IF branch = "alerts"
              THEN ring_append(alert_history, AlertEntry(payload),
                               AlertRingSize)
              ELSE alert_history
       /\ health_history' =
              IF branch = "health"
              THEN ring_append(health_history,
                               HealthEntry(payload, grid_id_of(topic)),
                               HealthRingSize)
              ELSE health_history

\* start_mqtt_client: the client object is assigned before connect() is
\* tried; the network thread is started only when connect() succeeded
StartMqttClient ==
    /\ mqtt_client = "None"
    /\ \E out \in {"ok", "fail"} :
          mqtt_client' = IF out = "ok" THEN "up" ELSE "idle"
    /\ UNCHANGED <<grid_states, alert_history, health_history, busLog,
                   apiReq, apiResp, apiRest>>

\* the broker connection is lost; the network thread reconnects
BrokerLost ==
    /\ mqtt_client = "up"
    /\ mqtt_client' = "down"
    /\ UNCHANGED <<grid_states, alert_history, health_history, busLog,
                   apiReq, apiResp, apiRest>>

BrokerBack ==
    /\ mqtt_client = "down"
    /\ mqtt_client' = "up"
    /\ UNCHANGED <<grid_states, alert_history, health_history, busLog,
                   apiReq, apiResp, apiRest>>

\* a message of the subscription dhsiled/# arrives; its payload is
\* identified by its arrival number
OnMqttMessage(topic) ==
    /\ mqtt_client = "up"
    /\ Len(busLog) < MaxBusMsgs
    /\ LET payload == [id |-> Len(busLog) + 1]
       IN /\ busLog' = Append(busLog, [topic |-> topic, payload |-> payload])
          /\ on_mqtt_message(topic, payload)
    /\ UNCHANGED <<mqtt_client, apiReq, apiResp, apiRest>>

\* the server process after import; the edge node's state is idle
InitApi ==
    /\ MQTT_AVAILABLE = TRUE
    /\ InitClient
    /\ now = 0
    /\ InitProcessor
    /\ InitDensityIdle
    /\ InitApp
    /\ InitServer
    /\ InitLibraries

NextApi ==
    \/ StartMqttClient
    \/ BrokerLost
    \/ BrokerBack
    \/ \E topic \in Topics : OnMqttMessage(topic)

SpecApi == InitApi /\ [][NextApi]_vars

\* ======================================================================
\* API server: the HTTP routes that write
\* ======================================================================

\* request bodies: no JSON document, a JSON object without the fields the
\* route reads, a JSON object with them
Bodies == {"none", "empty", "full"}

\* what the route answers when request.json has no document to give:
\* the 500 handler (request.json is None) or the framework's own 400/415
NoJsonCodes == {400, 415, 500}
NoJsonCodesFor(body) == IF body = "none" THEN NoJsonCodes ELSE {0}

\* mqtt_client.publish(topic, payload): accepted only on a connection
BusPublishOutcomes(body) ==
    IF body # "full" \/ mqtt_client = "None" THEN {"unused"}
    ELSE IF mqtt_client = "up" THEN {"ok", "rejected", "raise"}
    ELSE {"rejected", "raise"}

Answer(code, published, accepted, topic) ==
    [code |-> code, bus |-> mqtt_client, published |-> published,
     accepted |-> accepted, topic |-> topic]

\* the shared body of send_grid_command and broadcast_command
post_command(topic, body, out, nj) ==
    IF body = "none" THEN Answer(nj, FALSE, FALSE, <<>>)
    ELSE IF body = "empty" THEN Answer(400, FALSE, FALSE, <<>>)
    ELSE IF mqtt_client # "None"
         THEN IF out = "raise" THEN Answer(500, FALSE, FALSE, <<>>)
              ELSE Answer(200, TRUE, out = "ok", topic)
    ELSE Answer(503, FALSE, FALSE, <<>>)

SendGridCommand ==
    /\ \E g \in GridIds, body \in Bodies :
       \E out \in BusPublishOutcomes(body), nj \in NoJsonCodesFor(body) :
          /\ apiReq' = [endpoint |-> "command", grid_id |-> g,
                        alert_id |-> 0, body |-> body]
          /\ apiResp' = post_command(GridTopic(g, "commands"), body, out, nj)
    /\ UNCHANGED <<grid_states, alert_history, health_history, mqtt_client,
                   busLog, apiRest>>

BroadcastCommand ==
    /\ \E body \in Bodies :
       \E out \in BusPublishOutcomes(body), nj \in NoJsonCodesFor(body) :
          /\ apiReq' = [endpoint |-> "broadcast", grid_id |-> "",
                        alert_id |-> 0, body |-> body]
          /\ apiResp' = post_command(SystemTopic("broadcast"), body, out, nj)
    /\ UNCHANGED <<grid_states, alert_history, health_history, mqtt_client,
                   busLog, apiRest>>

\* next((a for a in alert_history if a.get('id') == alert_id), None)
Found(ring, alert_id) == {i \in 1..Len(ring) : ring[i].id = alert_id}
FirstFound(ring, alert_id) ==
    CHOOSE i \in Found(ring, alert_id) :
        \A j \in Found(ring, alert_id) : i <= j

\* request.json.get('user', 'system')
UserOf(body) == IF body = "full" THEN "user" ELSE "system"

\* acknowledge_alert: the three assignments, the third of which reads
\* request.json
acknowledge_alert(ring, alert_id, body) ==
    IF Found(ring, alert_id) = {} THEN ring
    ELSE LET i == FirstFound(ring, alert_id)
         IN IF body = "none"
            THEN [ring EXCEPT ![i].acknowledged = TRUE,
                              ![i].acknowledged_at = TRUE]
            ELSE [ring EXCEPT ![i].acknowledged = TRUE,
                              ![i].acknowledged_at = TRUE,
                              ![i].acknowledged_by = UserOf(body)]

AcknowledgeAlert ==
    /\ \E alert_id \in 1..MaxBusMsgs, body \in Bodies :
       \E nj \in NoJsonCodesFor(body) :
          /\ apiReq' = [endpoint |-> "acknowledge", grid_id |-> "",
                        alert_id |-> alert_id, body |-> body]
          /\ alert_history' = acknowledge_alert(alert_history, alert_id, body)
          /\ apiResp' =
                IF Found(alert_history, alert_id) = {}
                THEN Answer(404, FALSE, FALSE, <<>>)
                ELSE IF body = "none" THEN Answer(nj, FALSE, FALSE, <<>>)
                ELSE Answer(200, FALSE, FALSE, <<>>)
    /\ UNCHANGED <<grid_states, health_history, mqtt_client, busLog,
                   apiRest>>

\* the bus traffic next to the requests: alerts and status of one grid
HttpTopics == {GridTopic("G01", "alerts"), GridTopic("G01", "status")}

NextHttp ==
    \/ StartMqttClient
    \/ BrokerLost
    \/ BrokerBack
    \/ \E topic \in HttpTopics : OnMqttMessage(topic)
    \/ SendGridCommand
    \/ BroadcastCommand
    \/ AcknowledgeAlert

SpecHttp == InitApi /\ [][NextHttp]_vars

\* ======================================================================
\* Claims about the API server
\* ======================================================================

IsAlertMessage(m) == dispatch(m.topic) = "alerts"
IsHealthMessage(m) == dispatch(m.topic) = "health"

\* the alerts and the health samples the subscriber received, in arrival
\* order
ReceivedAlerts == SelectSeq(busLog, IsAlertMessage)
ReceivedHealth == SelectSeq(busLog, IsHealthMessage)

PayloadIds(log) == [i \in 1..Len(log) |-> log[i].payload.id]
EntryIds(ring) == [i \in 1..Len(ring) |-> ring[i].id]

Smaller(a, b) == IF a <= b THEN a ELSE b
LastN(s, n) == SubSeq(s, Len(s) - Smaller(Len(s), n) + 1, Len(s))

TopicKind(topic) == IF topic[2] = "grids" THEN topic[4] ELSE "system"

StatusMessagesOf(g) ==
    {i \in 1..Len(busLog) : busLog[i].topic = GridTopic(g, "status")}

CachedStateIsLastStatus ==
    \A g \in GridIds :
        StatusMessagesOf(g) # {} =>
            /\ Chars(g) \in DOMAIN grid_states
            /\ \E i \in StatusMessagesOf(g) :
                  /\ \A j \in StatusMessagesOf(g) : j <= i
                  /\ grid_states[Chars(g)] = busLog[i].payload

MessageEffect(m) ==
    LET kind == TopicKind(m.topic)
        g == Chars(m.topic[3])
    IN CASE kind = "status" ->
               /\ grid_states' = Put(grid_states, g, m.payload)
               /\ UNCHANGED <<alert_history, health_history>>
         [] kind = "alerts" ->
               /\ alert_history' = ring_append(alert_history,
                                               AlertEntry(m.payload),
                                               AlertRingSize)
               /\ UNCHANGED <<grid_states, health_history>>
         [] kind = "health" ->
               /\ health_history' = ring_append(health_history,
                                                HealthEntry(m.payload, g),
                                                HealthRingSize)
               /\ UNCHANGED <<grid_states, alert_history>>
         [] OTHER ->
               UNCHANGED <<grid_states, alert_history, health_history>>

\* C18: for every grid id g, a message on dhsiled/grids/g/status sets the
\* cached state of g and changes neither ring, one on .../alerts only
\* appends to the alert ring, one on .../health only appends to the health
\* ring tagged with g, and one on .../commands or on a system topic changes
\* none of the three caches; the cached state of g is always the payload of
\* the last status message received for g.
C18_TopicDispatch ==
    [][/\ busLog' # busLog => MessageEffect(busLog'[Len(busLog')])
       /\ CachedStateIsLastStatus']_vars

\* the topic a command route publishes on
CommandTopic(req) ==
    IF req.endpoint = "command" THEN GridTopic(req.grid_id, "commands")
    ELSE SystemTopic("broadcast")

\* C19: on the two command routes a body without `command` gets 400 and
\* nothing is published; without an established broker connection the
\* answer is 503 and nothing is published; otherwise the body is published
\* on the route's topic and success is answered only when the publish was
\* accepted.
C19_CommandResponses ==
    apiReq.endpoint \in {"command", "broadcast"} =>
        /\ apiReq.body = "empty" =>
              (apiResp.code = 400 /\ ~apiResp.published)
        /\ (apiReq.body = "full" /\ apiResp.bus # "up") =>
              (apiResp.code = 503 /\ ~apiResp.published)
        /\ (apiReq.body = "full" /\ apiResp.bus = "up") =>
              /\ apiResp.published => apiResp.topic = CommandTopic(apiReq)
              /\ apiResp.code = 200 =>
                    (apiResp.published /\ apiResp.accepted)

\* a step in which an HTTP request is handled
RequestStep == busLog' = busLog /\ mqtt_client' = mqtt_client

Acknowledged(entry, user) ==
    [entry EXCEPT !.acknowledged = TRUE, !.acknowledged_at = TRUE,
                  !.acknowledged_by = user]

\* C20: acknowledging an alert id that is in the ring sets acknowledged,
\* acknowledged_at and acknowledged_by on the entry with that id and
\* changes no other entry and no other field; for an id that is not in the
\* ring the answer is 404 and the ring is unchanged.
C20_Acknowledge ==
    [][(RequestStep /\ apiReq'.endpoint = "acknowledge") =>
          IF Found(alert_history, apiReq'.alert_id) # {}
          THEN \E user \in {"user", "system"} :
                  alert_history' =
                      [i \in 1..Len(alert_history) |->
                          IF alert_history[i].id = apiReq'.alert_id
                          THEN Acknowledged(alert_history[i], user)
                          ELSE alert_history[i]]
          ELSE apiResp'.code = 404 /\ alert_history' = alert_history]_vars

\* ======================================================================
\* API server: GET /api/alerts
\* ======================================================================

\* entries of the ring below, and the largest limit asked for
MaxListed == 3
MaxLimit == 3

Severities == {"high", "critical"}

\* the rings the route can find: the entries carry the fields it reads
ListedRings ==
    UNION {[1..n -> Severities] : n \in 0..MaxListed}

RingOf(sevs) == [i \in 1..Len(sevs) |-> [id |-> i, severity |-> sevs[i]]]

\* Python's xs[-n:] for n >= 0: -0 is 0, the start of the list
slice_last(xs, n) ==
    IF n = 0 \/ n >= Len(xs) THEN xs
    ELSE SubSeq(xs, Len(xs) - n + 1, Len(xs))

\* [a for a in alerts if a.get('severity') == severity]
RECURSIVE with_severity(_, _)
with_severity(alerts, severity) ==
    IF alerts = <<>> THEN <<>>
    ELSE IF Head(alerts).severity = severity
         THEN <<Head(alerts)>> \o with_severity(Tail(alerts), severity)
         ELSE with_severity(Tail(alerts), severity)

\* alerts[::-1]
reversed(xs) == [i \in 1..Len(xs) |-> xs[Len(xs) + 1 - i]]

\* get_alerts: severity "" stands for no severity parameter
get_alerts(ring, limit, severity) ==
    LET alerts == slice_last(ring, limit)
    IN reversed(IF severity # "" THEN with_severity(alerts, severity)
                ELSE alerts)

GetAlerts ==
    /\ \E limit \in 0..MaxLimit, severity \in Severities \cup {""} :
          /\ apiReq' = [endpoint |-> "alerts", limit |-> limit,
                        severity |-> severity]
          /\ alertsOut' = get_alerts(alert_history, limit, severity)
    /\ UNCHANGED <<grid_states, alert_history, health_history, mqtt_client,
                   busLog, apiResp, bridgeVars, cfgVars, rlVars, dbVars,
                   extVars, mqttVars, edgeVars, densVars, appVars, now>>

InitAlertList ==
    /\ MQTT_AVAILABLE = TRUE
    /\ InitClient
    /\ now = 0
    /\ InitProcessor
    /\ InitDensityIdle
    /\ InitApp
    /\ grid_states = <<>>
    /\ \E sevs \in ListedRings : alert_history = RingOf(sevs)
    /\ health_history = <<>>
    /\ mqtt_client = "None"
    /\ busLog = <<>>
    /\ apiReq = NoRequest
    /\ apiResp = NoResponse
    /\ InitLibraries

NextAlertList ==
    \/ GetAlerts

SpecAlertList == InitAlertList /\ [][NextAlertList]_vars

\* C21: GET /api/alerts with limit n >= 0 and an optional severity returns
\* at most n alerts, all of them entries of the ring, newest first, and all
\* of the given severity when one is given.
C21_AlertList ==
    apiReq.endpoint = "alerts" =>
        /\ Len(alertsOut) <= apiReq.limit
        /\ \A i \in 1..Len(alertsOut) :
              \E j \in 1..Len(alert_history) : alertsOut[i] = alert_history[j]
        /\ \A i \in 1..Len(alertsOut), j \in 1..Len(alertsOut) :
              i < j => alertsOut[i].id > alertsOut[j].id
        /\ apiReq.severity # "" =>
              \A i \in 1..Len(alertsOut) :
                  alertsOut[i].severity = apiReq.severity

\* ======================================================================
\* Data access layer (src/backend/database_models.py)
\* ======================================================================

\* instants are counted in half seconds from 0 to MaxDbTime; a collection
\* holds at most MaxDbDocs documents
MaxDbTime == 3
MaxDbDocs == 2

DbTimes == 0..MaxDbTime

\* the store answers a call or raises
StoreOutcomes == {"ok", "error"}

Digit(n) ==
    CASE n = 0 -> "0" [] n = 1 -> "1" [] n = 2 -> "2" [] n = 3 -> "3"
      [] n = 4 -> "4" [] n = 5 -> "5" [] n = 6 -> "6" [] n = 7 -> "7"
      [] n = 8 -> "8" [] n = 9 -> "9"

\* datetime.isoformat() of a UTC instant: the seconds, the fraction only
\* when it is not zero, the offset
isoformat(t) ==
    <<Digit(t \div 2)>>
        \o (IF t % 2 = 0 THEN <<>> ELSE <<".", "5">>)
        \o <<"+", "0", "0">>

CharCode(c) ==
    CASE c = "+" -> 43 [] c = "." -> 46 [] c = "0" -> 48 [] c = "1" -> 49
      [] c = "2" -> 50 [] c = "3" -> 51 [] c = "4" -> 52 [] c = "5" -> 53
      [] c = "6" -> 54 [] c = "7" -> 55 [] c = "8" -> 56 [] c = "9" -> 57

\* the store's order on strings
RECURSIVE str_less(_, _)
str_less(a, b) ==
    IF b = <<>> THEN FALSE
    ELSE IF a = <<>> THEN TRUE
    ELSE IF CharCode(Head(a)) # CharCode(Head(b))
         THEN CharCode(Head(a)) < CharCode(Head(b))
    ELSE str_less(Tail(a), Tail(b))

\* the documents of a collection that a filter keeps, in their order
RECURSIVE Keep(_, _)
Keep(docs, kept) ==
    IF docs = <<>> THEN <<>>
    ELSE IF Head(docs) \in kept THEN <<Head(docs)>> \o Keep(Tail(docs), kept)
    ELSE Keep(Tail(docs), kept)

Docs(coll) == {coll[i] : i \in 1..Len(coll)}

DbResult(op, raised, ok, rows) ==
    [op |-> op, raised |-> raised, ok |-> ok, rows |-> rows]

dbRest == <<mqttVars, edgeVars, densVars, appVars, apiVars, extVars,
             alertsOut,
            bridgeVars, cfgVars, rlVars, now>>

\* save_grid_status: insert_one inside try/except
SaveGridStatus(grid_data, out) ==
    /\ Len(db_grids) < MaxDbDocs
    /\ db_grids' = IF out = "ok" THEN Append(db_grids, grid_data)
                   ELSE db_grids
    /\ dbOut' = DbResult("save_grid_status", FALSE, out = "ok", <<>>)
    /\ UNCHANGED <<db_alerts, db_health, db_analytics, dbRest>>

\* the $group alone, without the $sort before it: for each grid id some
\* document of the grid
AnyPerGrid(coll) ==
    {pick \in [{d.grid_id : d \in Docs(coll)} -> Docs(coll)] :
        \A g \in DOMAIN pick : pick[g].grid_id = g}

\* the $sort by timestamp descending and $group by grid_id with $first:
\* for each grid id one document whose timestamp no other document of the
\* grid exceeds; among documents of equal timestamp the store picks
LatestPerGrid(coll) ==
    {pick \in [{d.grid_id : d \in Docs(coll)} -> Docs(coll)] :
        \A g \in DOMAIN pick :
            /\ pick[g].grid_id = g
            /\ \A d \in Docs(coll) :
                  d.grid_id = g =>
                      ~str_less(isoformat(pick[g].timestamp),
                                isoformat(d.timestamp))}

\* get_all_grids_current_status: no try/except around aggregate
GetAllGridsCurrentStatus(out) ==
    /\ \E pick \in LatestPerGrid(db_grids) :
          dbOut' = IF out = "ok"
                   THEN DbResult("get_all_grids_current_status", FALSE, TRUE,
                                 {pick[g] : g \in DOMAIN pick})
                   ELSE DbResult("get_all_grids_current_status", TRUE, FALSE,
                                 {})
    /\ UNCHANGED <<db_grids, db_alerts, db_health, db_analytics, dbRest>>

\* the alert document save_alert stores: created_at stamped, acknowledged
\* and resolved set to False; alert_id 0 stands for a document without the
\* field, and so does id 0
AlertRecord(alert_data) ==
    [id |-> IF "id" \in DOMAIN alert_data THEN alert_data.id ELSE 0,
     alert_id |-> alert_data.alert_id, timestamp |-> alert_data.timestamp,
     acknowledged |-> FALSE, acknowledged_at |-> FALSE,
     resolved |-> FALSE, resolved_at |-> FALSE]

\* the unique index on alert_id: a document without the field is indexed
\* under null, like any other such document
DuplicateKey(coll, alert_id) ==
    \E i \in 1..Len(coll) : coll[i].alert_id = alert_id

\* save_alert: insert_one inside try/except
SaveAlert(alert_data, out) ==
    /\ Len(db_alerts) < MaxDbDocs
    /\ LET stored == out = "ok"
                     /\ ~DuplicateKey(db_alerts, alert_data.alert_id)
       IN /\ db_alerts' = IF stored
                          THEN Append(db_alerts, AlertRecord(alert_data))
                          ELSE db_alerts
          /\ dbOut' = DbResult("save_alert", FALSE, stored, <<>>)
    /\ UNCHANGED <<db_grids, db_health, db_analytics, dbRest>>

\* update_one with a filter on alert_id: the documents it matches
Matching(coll, alert_id) == {i \in 1..Len(coll) : coll[i].alert_id = alert_id}

\* the $set of acknowledge_alert and of resolve_alert; the variant leaves
\* the time out
set_acknowledged_flag_only(doc) == [doc EXCEPT !.acknowledged = TRUE]

set_acknowledged(doc) ==
    [doc EXCEPT !.acknowledged = TRUE, !.acknowledged_at = TRUE]

set_resolved(doc) == [doc EXCEPT !.resolved = TRUE, !.resolved_at = TRUE]

\* acknowledge_alert of the data access layer: no try/except
DbAcknowledgeAlert(alert_id, out) ==
    /\ IF out = "ok" /\ Matching(db_alerts, alert_id) # {}
       THEN \E i \in Matching(db_alerts, alert_id) :
               /\ \A j \in Matching(db_alerts, alert_id) : i <= j
               /\ db_alerts' =
                     [db_alerts EXCEPT ![i] = set_acknowledged(@)]
       ELSE db_alerts' = db_alerts
    /\ dbOut' = IF out = "ok"
                THEN DbResult("acknowledge_alert", FALSE,
                              Matching(db_alerts, alert_id) # {}, <<>>)
                ELSE DbResult("acknowledge_alert", TRUE, FALSE, <<>>)
    /\ UNCHANGED <<db_grids, db_health, db_analytics, dbRest>>

\* resolve_alert: no try/except
DbResolveAlert(alert_id, out) ==
    /\ IF out = "ok" /\ Matching(db_alerts, alert_id) # {}
       THEN \E i \in Matching(db_alerts, alert_id) :
               /\ \A j \in Matching(db_alerts, alert_id) : i <= j
               /\ db_alerts' = [db_alerts EXCEPT ![i] = set_resolved(@)]
       ELSE db_alerts' = db_alerts
    /\ dbOut' = IF out = "ok"
                THEN DbResult("resolve_alert", FALSE,
                              Matching(db_alerts, alert_id) # {}, <<>>)
                ELSE DbResult("resolve_alert", TRUE, FALSE, <<>>)
    /\ UNCHANGED <<db_grids, db_health, db_analytics, dbRest>>

\* save_health_data: insert_one inside try/except
SaveHealthData(health_data, out) ==
    /\ Len(db_health) < MaxDbDocs
    /\ db_health' = IF out = "ok" THEN Append(db_health, health_data)
                    ELSE db_health
    /\ dbOut' = DbResult("save_health_data", FALSE, out = "ok", <<>>)
    /\ UNCHANGED <<db_grids, db_alerts, db_analytics, dbRest>>

\* save_analytics: the timestamp is stamped with the clock, a datetime
SaveAnalytics(clock, out) ==
    /\ Len(db_analytics) < MaxDbDocs
    /\ db_analytics' = IF out = "ok"
                       THEN Append(db_analytics, [timestamp |-> clock])
                       ELSE db_analytics
    /\ dbOut' = DbResult("save_analytics", FALSE, out = "ok", <<>>)
    /\ UNCHANGED <<db_grids, db_alerts, db_health, dbRest>>

\* the filters of cleanup_old_data: the timestamp strings below the
\* cutoff's string; for analytics the datetimes below the cutoff
OldByString(coll, cutoff) ==
    {d \in Docs(coll) :
        str_less(isoformat(d.timestamp), isoformat(cutoff))}

\* for alerts only the resolved ones; the variant takes them all
OldAnyAlert(coll, cutoff) == OldByString(coll, cutoff)

OldResolved(coll, cutoff) == {d \in OldByString(coll, cutoff) : d.resolved}

OldByDatetime(coll, cutoff) == {d \in Docs(coll) : d.timestamp < cutoff}

Removed(coll, old) == Len(coll) - Len(Keep(coll, Docs(coll) \ old))

\* cleanup_old_data: four delete_many calls, no try/except; fail_at is the
\* call at which the store raises, 0 when none does
CleanupOldData(cutoff, fail_at) ==
    LET runs(k) == fail_at = 0 \/ k < fail_at
        oldGrids == OldByString(db_grids, cutoff)
        oldHealth == OldByString(db_health, cutoff)
        oldAlerts == OldResolved(db_alerts, cutoff)
        oldAnalytics == OldByDatetime(db_analytics, cutoff)
    IN /\ db_grids' = IF runs(1) THEN Keep(db_grids, Docs(db_grids) \ oldGrids)
                      ELSE db_grids
       /\ db_health' = IF runs(2)
                       THEN Keep(db_health, Docs(db_health) \ oldHealth)
                       ELSE db_health
       /\ db_alerts' = IF runs(3)
                       THEN Keep(db_alerts, Docs(db_alerts) \ oldAlerts)
                       ELSE db_alerts
       /\ db_analytics' =
             IF runs(4)
             THEN Keep(db_analytics, Docs(db_analytics) \ oldAnalytics)
             ELSE db_analytics
       /\ dbOut' =
             IF fail_at = 0
             THEN DbResult("cleanup_old_data", FALSE, TRUE,
                           [grids |-> Removed(db_grids, oldGrids),
                            health |-> Removed(db_health, oldHealth),
                            alerts |-> Removed(db_alerts, oldAlerts),
                            analytics |-> Removed(db_analytics,
                                                  oldAnalytics),
                            cutoff |-> cutoff])
             ELSE DbResult("cleanup_old_data", TRUE, FALSE, <<>>)
       /\ UNCHANGED dbRest

\* get_database_stats: count_documents calls, no try/except
GetDatabaseStats(out) ==
    /\ dbOut' = IF out = "ok"
                THEN DbResult("get_database_stats", FALSE, TRUE,
                              [total_grids |-> Len(db_grids),
                               total_alerts |-> Len(db_alerts)])
                ELSE DbResult("get_database_stats", TRUE, FALSE, <<>>)
    /\ UNCHANGED <<db_grids, db_alerts, db_health, db_analytics, dbRest>>

\* ======================================================================
\* Alerts in the backend: the API server's ring and the alerts collection
\* ======================================================================

\* the bus delivers a message it has delivered before (a QoS 1 publish
\* sent again, a queued message published again)
OnMqttRedelivery ==
    /\ mqtt_client = "up"
    /\ Len(busLog) < MaxBusMsgs
    /\ \E i \in 1..Len(busLog) :
          /\ busLog' = Append(busLog, busLog[i])
          /\ on_mqtt_message(busLog[i].topic, busLog[i].payload)
    /\ UNCHANGED <<mqtt_client, apiReq, apiResp, apiRest>>

\* the alert documents handed to save_alert: with the alert_id field or
\* as the bus payload is, without it
AlertDocs == {[alert_id |-> a, timestamp |-> 0] : a \in {0, 1, 2}}

\* redelivery on the bus and repeated saves
NextRedelivery ==
    \/ StartMqttClient
    \/ OnMqttMessage(GridTopic("G01", "alerts"))
    \/ OnMqttRedelivery
    \/ \E doc \in AlertDocs, out \in StoreOutcomes : SaveAlert(doc, out)

SpecRedelivery == InitApi /\ [][NextRedelivery]_vars

\* acknowledging and resolving, in the ring and in the collection
NextAlerts ==
    \/ StartMqttClient
    \/ OnMqttMessage(GridTopic("G01", "alerts"))
    \/ AcknowledgeAlert
    \/ \E out \in StoreOutcomes :
          SaveAlert([alert_id |-> 1, timestamp |-> 0], out)
    \/ \E out \in StoreOutcomes : DbAcknowledgeAlert(1, out)
    \/ \E out \in StoreOutcomes : DbResolveAlert(1, out)

SpecAlerts == InitApi /\ [][NextAlerts]_vars

\* C22: no two entries of the alert ring have the same id and no two
\* records of the alerts collection have the same id, whatever the bus
\* delivers, redelivered alerts included.
C22_UniqueAlertIds ==
    /\ \A i \in 1..Len(alert_history), j \in 1..Len(alert_history) :
          i # j => alert_history[i].id # alert_history[j].id
    /\ \A i \in 1..Len(db_alerts), j \in 1..Len(db_alerts) :
          i # j => db_alerts[i].alert_id # db_alerts[j].alert_id

SocketClients == {"c1", "c2"}

\* JSON objects as the edge nodes publish them, as maps from field names
StatusPayload ==
    [f \in {"grid_id", "people_count"} |->
        IF f = "grid_id" THEN "G01" ELSE "45"]
AlertPayload ==
    [f \in {"id", "type", "severity"} |->
        CASE f = "id" -> "ALT-1" [] f = "type" -> "crowd_density"
          [] f = "severity" -> "critical"]
HealthPayload ==
    [f \in {"cpu_temperature", "health_score"} |->
        IF f = "cpu_temperature" THEN "45" ELSE "90"]
CommandPayload == [f \in {"command"} |-> "restart"]

\* what is published on a topic, by its leaf
PayloadsOn(topic) ==
    CASE TopicKind(topic) = "status" -> {StatusPayload}
      [] TopicKind(topic) = "alerts" -> {AlertPayload}
      [] TopicKind(topic) = "health" -> {HealthPayload}
      [] OTHER -> {CommandPayload}

\* the type on_mqtt_message of the bridge picks for a topic
message_type(topic) ==
    IF Contains(Chars("status"), Text(topic)) THEN "grid_status"
    ELSE IF Contains(Chars("alerts"), Text(topic)) THEN "alert"
    ELSE IF Contains(Chars("health"), Text(topic)) THEN "health"
    ELSE "system"

\* data['type'] = ...
with_type(data, type) ==
    [f \in (DOMAIN data) \cup {"type"} |->
        IF f = "type" THEN type ELSE data[f]]

\* asyncio.create_task needs the event loop running in the calling thread
create_task(thread) == IF thread = "loop" THEN "scheduled" ELSE "RuntimeError"

\* the thread the bus client's callbacks run in: the network thread that
\* loop_start() starts
CallbackThread == "network"

bridgeRest == <<mqttVars, edgeVars, densVars, appVars, apiVars, extVars,
                 alertsOut,
                cfgVars, rlVars, dbVars, now>>

\* start_mqtt_client of the bridge
StartBridgeClient ==
    /\ wsMqtt = "None"
    /\ \E out \in {"ok", "fail"} :
          wsMqtt' = IF out = "ok" THEN "up" ELSE "idle"
    /\ UNCHANGED <<connected_clients, wsTask, wsSent, bridgeRest>>

\* websocket_handler: a socket client connects
ClientConnects(c) ==
    /\ c \notin connected_clients
    /\ connected_clients' = connected_clients \cup {c}
    /\ UNCHANGED <<wsMqtt, wsTask, wsSent, bridgeRest>>

\* websocket_handler: the connection ends
ClientDisconnects(c) ==
    /\ c \in connected_clients
    /\ connected_clients' = connected_clients \ {c}
    /\ UNCHANGED <<wsMqtt, wsTask, wsSent, bridgeRest>>

\* on_mqtt_message of the bridge: the object is built, then the broadcast
\* is handed to create_task; the exception create_task raises is caught
\* and logged, and broadcast_message never runs
OnBridgeMessage(topic, payload) ==
    /\ wsMqtt = "up"
    /\ LET data == with_type(payload, message_type(topic))
           task == create_task(CallbackThread)
       IN /\ wsTask' = [outcome |-> task, topic |-> topic,
                        payload |-> payload, data |-> data,
                        clients |-> connected_clients]
          /\ wsSent' = IF task = "scheduled"
                       THEN wsSent \o <<[clients |-> connected_clients,
                                         data |-> data]>>
                       ELSE wsSent
    /\ UNCHANGED <<wsMqtt, connected_clients, bridgeRest>>

NextBridge ==
    \/ StartBridgeClient
    \/ \E c \in SocketClients : ClientConnects(c)
    \/ \E c \in SocketClients : ClientDisconnects(c)
    \/ \E topic \in Topics : \E payload \in PayloadsOn(topic) :
          OnBridgeMessage(topic, payload)

SpecBridge == InitApi /\ [][NextBridge]_vars

\* C24: every bus message the bridge's callback receives is sent, tagged
\* with its type, to every socket client connected at that time.
C24_BroadcastToAll ==
    wsTask.outcome # "none" =>
        \A c \in wsTask.clients :
            \E k \in 1..Len(wsSent) :
                /\ c \in wsSent[k].clients
                /\ wsSent[k].data = wsTask.data

\* C25: the object the bridge builds for a bus message is the payload plus
\* the field type: every field of the payload is there with its value.
C25_PayloadForwarded ==
    wsTask.outcome # "none" =>
        /\ wsTask.data["type"] \in {"grid_status", "alert", "health", "system"}
        /\ \A f \in DOMAIN wsTask.payload :
              /\ f \in DOMAIN wsTask.data
              /\ wsTask.data[f] = wsTask.payload[f]

\* ======================================================================
\* Configuration (src/edge-computing/src/utils/config.py)
\* ======================================================================

\* a document is a map; a value is a map or a scalar
MapOf(items) == [kind |-> "map", items |-> items]
Scalar(v) == [kind |-> "scalar", v |-> v]
TypeError == [kind |-> "TypeError"]

\* the dotted keys asked for, as strings
DottedKeys ==
    {<<"a">>, <<"b">>, <<"a", ".", "b">>, <<"a", ".", "b", ".", "a">>}

\* the values set, and the default handed to get
SetValues == {Scalar(1), Scalar(2)}
Default == Scalar(0)

\* the documents load_config can leave
LoadedDocuments ==
    {EmptyMap,
     MapOf([k \in {<<"a">>} |-> Scalar(1)]),
     MapOf([k \in {<<"a">>} |-> MapOf([j \in {<<"b">>} |-> Scalar(1)])])}

\* config[k] = value on a map
PutItem(config, k, value) ==
    MapOf([j \in (DOMAIN config.items) \cup {k} |->
              IF j = k THEN value ELSE config.items[j]])

\* Config.get: value = value[k] along the keys; KeyError and TypeError
\* give the default
RECURSIVE get_in(_, _, _)
get_in(value, keys, default) ==
    IF keys = <<>> THEN value
    ELSE IF value.kind # "map" THEN default
    ELSE IF Head(keys) \notin DOMAIN value.items THEN default
    ELSE get_in(value.items[Head(keys)], Tail(keys), default)

get(config, key, default) == get_in(config, split(key, "."), default)

\* Config.set: the walk to the parent creates the maps that are missing;
\* `k not in config` and the item assignment raise TypeError on a value
\* that is not a map
RECURSIVE set_in(_, _, _)
set_in(config, keys, value) ==
    IF config.kind # "map" THEN TypeError
    ELSE IF Len(keys) = 1 THEN PutItem(config, Head(keys), value)
    ELSE LET child == IF Head(keys) \in DOMAIN config.items
                      THEN config.items[Head(keys)]
                      ELSE EmptyMap
             below == set_in(child, Tail(keys), value)
         IN IF below = TypeError THEN TypeError
            ELSE PutItem(config, Head(keys), below)

set(config, key, value) == set_in(config, split(key, "."), value)

cfgRest == <<mqttVars, edgeVars, densVars, appVars, apiVars, extVars,
              alertsOut,
             bridgeVars, rlVars, dbVars, now>>

ConfigGet ==
    /\ \E key \in DottedKeys :
          cfgOut' = [op |-> "get", key |-> key, value |-> Default,
                     raised |-> FALSE,
                     result |-> get(config_data, key, Default)]
    /\ UNCHANGED <<config_data, cfgRest>>

ConfigSet ==
    /\ \E key \in DottedKeys, value \in SetValues :
          LET after == set(config_data, key, value)
          IN /\ config_data' = IF after = TypeError THEN config_data
                               ELSE after
             /\ cfgOut' = [op |-> "set", key |-> key, value |-> value,
                           raised |-> after = TypeError, result |-> Default]
    /\ UNCHANGED cfgRest

InitConfig ==
    /\ MQTT_AVAILABLE = TRUE
    /\ InitClient
    /\ now = 0
    /\ InitProcessor
    /\ InitDensityIdle
    /\ InitApp
    /\ InitServer
    /\ InitExt
    /\ InitAlertsOut
    /\ InitBridge
    /\ config_data \in LoadedDocuments
    /\ cfgOut = NoCfgCall
    /\ InitLimiterIdle
    /\ InitDb

NextConfig ==
    \/ ConfigGet
    \/ ConfigSet

SpecConfig == InitConfig /\ [][NextConfig]_vars

\* whether the walk along the keys stays in maps and finds every key
RECURSIVE PathThere(_, _)
PathThere(value, keys) ==
    \/ keys = <<>>
    \/ /\ value.kind = "map"
       /\ Head(keys) \in DOMAIN value.items
       /\ PathThere(value.items[Head(keys)], Tail(keys))

\* C26: set(k, v) completes on any document, creating the maps that are
\* missing, and a following get(k) returns v; get of a path that is
\* missing or passes through a value that is not a map returns the default
\* and changes nothing.
C26_DottedAccess ==
    [][/\ cfgOut'.op = "set" =>
             /\ ~cfgOut'.raised
             /\ get(config_data', cfgOut'.key, Default) = cfgOut'.value
       /\ cfgOut'.op = "get" =>
             /\ config_data' = config_data
             /\ ~PathThere(config_data, split(cfgOut'.key, ".")) =>
                   cfgOut'.result = cfgOut'.value]_vars

\* ======================================================================
\* Grid-status records of the data access layer
\* ======================================================================

\* the grid-status documents saved: the grid and the payload's timestamp
GridDocs == [grid_id : GridIds, timestamp : DbTimes]

NextGrids ==
    \/ \E grid_data \in GridDocs, out \in StoreOutcomes :
          SaveGridStatus(grid_data, out)
    \/ \E out \in StoreOutcomes : GetAllGridsCurrentStatus(out)
    \/ \E out \in StoreOutcomes : GetDatabaseStats(out)

SpecGrids == InitApi /\ [][NextGrids]_vars

\* the latest-per-grid query has answered
LatestAnswered ==
    /\ dbOut.op = "get_all_grids_current_status"
    /\ ~dbOut.raised

\* the position of the record saved last for a grid
LastSaved(g) ==
    CHOOSE i \in 1..Len(db_grids) :
        /\ db_grids[i].grid_id = g
        /\ \A j \in 1..Len(db_grids) : db_grids[j].grid_id = g => j <= i

OnePerGrid ==
    /\ \A r \in dbOut.rows : \E i \in 1..Len(db_grids) : db_grids[i] = r
    /\ \A i \in 1..Len(db_grids) :
          \E r \in dbOut.rows : r.grid_id = db_grids[i].grid_id
    /\ \A r, q \in dbOut.rows : r.grid_id = q.grid_id => r = q

\* C27 as stated: the query returns exactly one record per grid id, and
\* each is the record saved last for its grid, whatever the timestamps.
C27_LatestIsLastSaved ==
    LatestAnswered =>
        /\ OnePerGrid
        /\ \A r \in dbOut.rows : r = db_grids[LastSaved(r.grid_id)]

\* C27 amended: the query returns exactly one record per grid id, and each
\* is a record of its grid whose timestamp no record of the grid exceeds.
C27_LatestIsGreatestTimestamp ==
    LatestAnswered =>
        /\ OnePerGrid
        /\ \A r \in dbOut.rows :
              \A i \in 1..Len(db_grids) :
                  db_grids[i].grid_id = r.grid_id =>
                      db_grids[i].timestamp <= r.timestamp

\* the query answered over a grid whose records were saved with
\* decreasing timestamps
C27_Witness ==
    /\ LatestAnswered
    /\ \E i, j \in 1..Len(db_grids) :
          /\ i < j
          /\ db_grids[i].grid_id = db_grids[j].grid_id
          /\ db_grids[i].timestamp > db_grids[j].timestamp
          /\ db_grids[i] \in dbOut.rows

\* C29: no operation of the data access layer propagates a store error:
\* every call returns, with a failure value when the store raised.
C29_NoStoreErrorPropagates == ~dbOut.raised

\* ======================================================================
\* Cleanup of the data access layer
\* ======================================================================

\* the documents in the four collections together
Stored == Len(db_grids) + Len(db_health) + Len(db_alerts) + Len(db_analytics)

\* the alerts, and the status and health documents, saved before a cleanup
CleanupAlertDocs == [alert_id : {1, 2}, timestamp : DbTimes]
CleanupGridDocs == [grid_id : {"G01"}, timestamp : DbTimes]

NextCleanup ==
    \/ /\ Stored < MaxDbDocs
       /\ \E grid_data \in CleanupGridDocs : SaveGridStatus(grid_data, "ok")
    \/ /\ Stored < MaxDbDocs
       /\ \E health_data \in CleanupGridDocs :
             SaveHealthData(health_data, "ok")
    \/ /\ Stored < MaxDbDocs
       /\ \E alert_data \in CleanupAlertDocs : SaveAlert(alert_data, "ok")
    \/ /\ Stored < MaxDbDocs
       /\ \E clock \in DbTimes : SaveAnalytics(clock, "ok")
    \/ \E alert_id \in {1, 2} : DbResolveAlert(alert_id, "ok")
    \/ \E cutoff \in DbTimes, fail_at \in 0..4 :
          CleanupOldData(cutoff, fail_at)

SpecCleanup == InitApi /\ [][NextCleanup]_vars

\* what a completed cleanup did to one collection: every document older
\* than the cutoff is gone, no newer one is, and the count is the number
\* of documents removed
Cleaned(before, after, cutoff, count) ==
    /\ \A d \in Docs(before) : d.timestamp < cutoff => d \notin Docs(after)
    /\ \A d \in Docs(before) : d.timestamp > cutoff => d \in Docs(after)
    /\ Docs(after) \subseteq Docs(before)
    /\ count = Len(before) - Len(after)

\* C28: a cleanup that completes never deletes an unresolved alert; it
\* deletes every grid-status, health and analytics record older than the
\* cutoff and every resolved alert older than the cutoff, deletes no
\* record newer than the cutoff, and reports per collection the number of
\* records it removed.
C28_Cleanup ==
    [][(dbOut'.op = "cleanup_old_data" /\ ~dbOut'.raised) =>
          LET cutoff == dbOut'.rows.cutoff
          IN /\ \A d \in Docs(db_alerts) :
                   ~d.resolved => d \in Docs(db_alerts')
             /\ Cleaned(db_grids, db_grids', cutoff, dbOut'.rows.grids)
             /\ Cleaned(db_health, db_health', cutoff, dbOut'.rows.health)
             /\ Cleaned(db_analytics, db_analytics', cutoff,
                        dbOut'.rows.analytics)
             /\ Cleaned(Keep(db_alerts,
                             {d \in Docs(db_alerts) : d.resolved}),
                        Keep(db_alerts',
                             {d \in Docs(db_alerts') : d.resolved}),
                        cutoff, dbOut'.rows.alerts)]_vars

\* a cleanup has removed a resolved alert and left an unresolved alert
\* that is older than the cutoff
C28_Witness ==
    /\ dbOut.op = "cleanup_old_data"
    /\ ~dbOut.raised
    /\ dbOut.rows.alerts = 1
    /\ \E d \in Docs(db_alerts) :
          ~d.resolved /\ d.timestamp < dbOut.rows.cutoff

\* ======================================================================
\* RateLimiter (src/edge-computing/src/utils/helpers.py)
\* ======================================================================

\* the limiters built: max_calls in 0..MaxCalls, period in 1..MaxPeriod;
\* the clock runs from 0 to MaxLimiterTime
MaxCalls == 2
MaxPeriod == 2
MaxLimiterTime == 3

\* [t for t in self.calls if current_time - t < self.period]
recent(ts, current_time, per) ==
    LET fresh(t) == current_time - t < per
    IN SelectSeq(ts, fresh)

\* min(self.calls)
oldest_call(ts) ==
    CHOOSE t \in {ts[i] : i \in 1..Len(ts)} :
        \A i \in 1..Len(ts) : t <= ts[i]

\* time_until_allowed: 0.0 below the limit, else the rest of the oldest
\* call's period; min of an empty list raises ValueError
time_until_allowed(ts, limit, per, current_time) ==
    IF Len(ts) < limit
    THEN [raised |-> FALSE, wait |-> 0]
    ELSE IF ts = <<>>
    THEN [raised |-> TRUE, wait |-> 0]
    ELSE LET rest == per - (current_time - oldest_call(ts))
         IN [raised |-> FALSE, wait |-> IF rest > 0 THEN rest ELSE 0]

rlRest == <<mqttVars, edgeVars, densVars, appVars, apiVars, extVars,
             alertsOut,
            bridgeVars, cfgVars, dbVars, now>>

IsAllowed ==
    LET kept == recent(calls, rlNow, period)
        allowed == Len(kept) < max_calls
    IN /\ calls' = IF allowed THEN Append(kept, rlNow) ELSE kept
       /\ rlAllowed' = IF allowed THEN Append(rlAllowed, rlNow)
                       ELSE rlAllowed
       /\ rlOut' = [op |-> "is_allowed", at |-> rlNow, allowed |-> allowed,
                    wait |-> 0, raised |-> FALSE]
       /\ UNCHANGED <<max_calls, period, rlNow, rlRest>>

TimeUntilAllowed ==
    LET answer == time_until_allowed(calls, max_calls, period, rlNow)
    IN /\ rlOut' = [op |-> "time_until_allowed", at |-> rlNow,
                    allowed |-> FALSE, wait |-> answer.wait,
                    raised |-> answer.raised]
       /\ UNCHANGED <<max_calls, period, calls, rlNow, rlAllowed, rlRest>>

LimiterClock ==
    /\ rlNow < MaxLimiterTime
    /\ rlNow' = rlNow + 1
    /\ UNCHANGED <<max_calls, period, calls, rlOut, rlAllowed, rlRest>>

InitLimiter ==
    /\ MQTT_AVAILABLE = TRUE
    /\ InitClient
    /\ now = 0
    /\ InitProcessor
    /\ InitDensityIdle
    /\ InitApp
    /\ InitServer
    /\ InitExt
    /\ InitAlertsOut
    /\ InitBridge
    /\ InitConfigIdle
    /\ InitDb
    /\ max_calls \in 0..MaxCalls
    /\ period \in 1..MaxPeriod
    /\ calls = <<>>
    /\ rlNow = 0
    /\ rlOut = NoLimiterCall
    /\ rlAllowed = <<>>

NextLimiter ==
    \/ IsAllowed
    \/ TimeUntilAllowed
    \/ LimiterClock

SpecLimiter == InitLimiter /\ [][NextLimiter]_vars

\* the calls allowed in the window that starts at the i-th allowed call
\* and is shorter than the period
AllowedInWindowFrom(i) ==
    {k \in i..Len(rlAllowed) : rlAllowed[k] - rlAllowed[i] < period}

\* what is_allowed() would return now
WouldAllow ==
    Cardinality({i \in 1..Len(calls) : rlNow - calls[i] < period}) < max_calls

\* C30: in every time window shorter than period is_allowed() returns true
\* at most max_calls times; and time_until_allowed() returns, and returns 0
\* exactly when an is_allowed() call at that instant would return true.
C30_RateLimit ==
    /\ \A i \in 1..Len(rlAllowed) :
          Cardinality(AllowedInWindowFrom(i)) <= max_calls
    /\ (rlOut.op = "time_until_allowed" /\ rlOut.at = rlNow) =>
          /\ ~rlOut.raised
          /\ rlOut.wait = 0 <=> WouldAllow

\* ======================================================================
\* The offline queue and its flushes, with their history
\* ======================================================================

\* the clock of the flush history advances in steps of FlushTick seconds
FlushTick == 150
FlushMaxTime == 300

\* the library state a publish and a flush leave alone
flushLibRest == <<alertsOut, bridgeVars, cfgVars, rlVars, dbVars, ext2Vars>>

\* publish() by an application task; the history keeps the time at which
\* the message entered the offline queue
TrackedPublish ==
    /\ PublishCall
    /\ queuedAt' = IF lastPublish'.to \in Queued
                   THEN [queuedAt EXCEPT ![nextId] = now]
                   ELSE queuedAt
    /\ UNCHANGED <<handed, lastFlush, flushLibRest>>

\* the message task i of the flush passes to publish() in its next step:
\* the first of its messages that the age check lets through
FlushHead(i) ==
    SkipOld(IF flush[i].st = "new" THEN message_queue ELSE flush[i].todo)

\* a step of a flush task; the history keeps what became of the message
TrackedFlush ==
    /\ \E i \in 1..Len(flush), out \in SendOutcomes :
          /\ process_message_queue(i, out)
          /\ IF FlushHead(i) = <<>>
             THEN UNCHANGED <<handed, lastFlush>>
             ELSE LET m == Head(FlushHead(i))
                      r == publish(<<>>, m, out)
                  IN /\ lastFlush' = [id |-> m.id, fate |-> FateOf(r),
                                      age |-> now - queuedAt[m.id]]
                     /\ handed' = IF r.sent
                                  THEN [handed EXCEPT ![m.id] = @ + 1]
                                  ELSE handed
    /\ UNCHANGED <<queuedAt, flushRest, flushLibRest>>

FlushClock ==
    /\ now < FlushMaxTime
    /\ now' = now + FlushTick
    /\ UNCHANGED <<mqttVars, edgeVars, densVars, appVars, apiVars, libVars>>

NextFlush ==
    \/ InitConnect
    \/ RunTop
    \/ RunLoopIdle
    \/ RunLoopConnAck
    \/ RunLoopConnRefused
    \/ RunLoopDisconnected
    \/ RunLoopError
    \/ RunBackoff
    \/ TrackedPublish
    \/ TrackedFlush
    \/ DisconnectBegin
    \/ DisconnectFinish
    \/ FlushClock

SpecFlush == InitMqtt /\ [][NextFlush]_vars

Handed == {"sent", "sent+queued"}

\* C31: no message is handed to the transport by a queue flush 300 seconds
\* or more after it first entered the offline queue, a message that was put
\* back on the queue after a failed re-publish included.
C31_NoStaleHandover ==
    lastFlush.fate \in Handed => lastFlush.age < MaxQueueAge

\* C36: every message a flush takes from the offline queue and does not
\* discard for its age is handed to the transport or put back on the
\* queue, also when the connection is lost during the flush; and no queued
\* message is handed to the transport more than once by the flushes.
C36_FlushConserves ==
    /\ lastFlush.fate # "dropped"
    /\ \A id \in 1..MaxMsgs : handed[id] <= 1

\* ======================================================================
\* The messaging client after disconnect()
\* ======================================================================

\* a disconnect() call has been made and has returned
DisconnectCompleted == dcalls > 0 /\ dpc = "idle"

\* C37: once disconnect() of a client instance has completed, the instance
\* never connects again and never publishes again: no CONNECT is sent, the
\* connected flag is not set again, nothing more is announced, and the
\* retained `offline` status stays the last status it published.
C37_StaysDisconnected ==
    [][DisconnectCompleted =>
          /\ link' = "pending" => link = "pending"
          /\ connected' => connected
          /\ wire' = wire]_vars

\* ======================================================================
\* BehaviorAnalyzer (src/edge-computing/src/models/behavior_analyzer.py)
\* ======================================================================

\* analyze_sequence calls
MaxAnalyses == 6

\* deque(maxlen=5)
HistoryLen == 5

\* the score 1.0; scores are counted in sixtieths, which the weighted
\* averages of the model outputs below are whole numbers of
Unit == 60

\* np.array([0.1, 0.2, 0.3, 0.4]), in tenths
weights == <<1, 2, 3, 4>>

\* two of the behavior classes, and model outputs that sum to 1
ScoredClasses == {"normal", "panic"}

ModelOutputs ==
    {[normal |-> Unit, panic |-> 0],
     [normal |-> Unit \div 2, panic |-> Unit \div 2],
     [normal |-> 0, panic |-> Unit]}

\* the failure default of analyze_sequence
DefaultScores == [b \in ScoredClasses |-> IF b = "normal" THEN Unit ELSE 0]

RECURSIVE Sum(_)
Sum(xs) == IF xs = <<>> THEN 0 ELSE Head(xs) + Sum(Tail(xs))

\* deque.append with maxlen
deque_append(history, x) ==
    IF Len(history) >= HistoryLen THEN Append(Tail(history), x)
    ELSE Append(history, x)

\* np.average(scores, weights=w): shapes that differ raise
average(scores, w) ==
    IF Len(scores) # Len(w) THEN [raised |-> TRUE, value |-> 0]
    ELSE [raised |-> FALSE,
          value |-> Sum([i \in 1..Len(w) |-> w[i] * scores[i]]) \div Sum(w)]

\* _apply_temporal_smoothing on the history the new prediction was
\* appended to
apply_temporal_smoothing(history) ==
    LET w == SubSeq(weights, 1,
                    IF Len(history) < Len(weights) THEN Len(history)
                    ELSE Len(weights))
        avg(b) == average([i \in 1..Len(history) |-> history[i][b]], w)
    IN IF \E b \in ScoredClasses : avg(b).raised
       THEN [raised |-> TRUE, scores |-> DefaultScores]
       ELSE [raised |-> FALSE, scores |-> [b \in ScoredClasses |-> avg(b).value]]

baRest == <<mqttVars, edgeVars, densVars, appVars, apiVars, alertsOut,
            bridgeVars, cfgVars, rlVars, dbVars, flushVars, dmVars, thrVars,
            now>>

\* analyze_sequence: the model's output, or its exception, then the
\* smoothing; any exception gives the default
AnalyzeSequence ==
    /\ baOut.n < MaxAnalyses
    /\ \E predicted \in ModelOutputs, outcome \in {"ok", "raise"} :
          IF outcome = "raise"
          THEN /\ baOut' = [op |-> "analyze_sequence", n |-> baOut.n + 1,
                            model_failed |-> TRUE, defaulted |-> TRUE,
                            scores |-> DefaultScores]
               /\ UNCHANGED prediction_history
          ELSE LET history == deque_append(prediction_history, predicted)
                   smoothed == apply_temporal_smoothing(history)
               IN /\ prediction_history' = history
                  /\ baOut' = [op |-> "analyze_sequence", n |-> baOut.n + 1,
                               model_failed |-> FALSE,
                               defaulted |-> smoothed.raised,
                               scores |-> smoothed.scores]
    /\ UNCHANGED baRest

NextAnalyzer == AnalyzeSequence

SpecAnalyzer == InitApi /\ [][NextAnalyzer]_vars

\* C32: on every call on which the model did not fail, the result is the
\* average of the retained prediction vectors with weights ascending in
\* proportion 1 : 2 : 3 : ..., the most recent heaviest, it sums to 1, and it
\* is not the failure default.
C32_TemporalSmoothing ==
    (baOut.op = "analyze_sequence" /\ ~baOut.model_failed) =>
        /\ ~baOut.defaulted
        /\ Sum([i \in 1..2 |->
                   baOut.scores[IF i = 1 THEN "normal" ELSE "panic"]]) = Unit
        /\ Len(prediction_history) <= Len(weights) =>
              \A b \in ScoredClasses :
                  baOut.scores[b]
                      * Sum([i \in 1..Len(prediction_history) |-> i])
                    = Sum([i \in 1..Len(prediction_history) |->
                              i * prediction_history[i][b]])

\* ======================================================================
\* Loading the configuration
\* ======================================================================

MqttKey == <<"m", "q", "t", "t">>
HostKey == <<"h", "o", "s", "t">>
PortKey == <<"p", "o", "r", "t">>
GridKey == <<"g", "r", "i", "d">>
IdKey == <<"i", "d">>
LoggingKey == <<"l", "o", "g", "g", "i", "n", "g">>
LevelKey == <<"l", "e", "v", "e", "l">>

Dotted(k1, k2) == k1 \o <<".">> \o k2

\* _get_default_config, the keys the environment can override
default_config ==
    PutItem(PutItem(PutItem(EmptyMap,
        MqttKey, PutItem(PutItem(EmptyMap, HostKey, Scalar("localhost")),
                         PortKey, Scalar(1883))),
        GridKey, PutItem(EmptyMap, IdKey, Scalar("G01"))),
        LoggingKey, PutItem(EmptyMap, LevelKey, Scalar("INFO")))

\* yaml.safe_load of an empty file
None == [kind |-> "None"]

\* the configuration file: missing, unreadable, or what safe_load returns
ConfigFiles ==
    {[kind |-> "missing", doc |-> None],
     [kind |-> "unreadable", doc |-> None],
     [kind |-> "read", doc |-> None],
     [kind |-> "read", doc |-> EmptyMap],
     [kind |-> "read",
      doc |-> PutItem(EmptyMap, MqttKey,
                      PutItem(EmptyMap, HostKey, Scalar("10.0.0.1")))],
     [kind |-> "read", doc |-> PutItem(EmptyMap, MqttKey, Scalar("10.0.0.1"))]}

\* the environment: "" stands for a variable that is not set
Environments ==
    [DHSILED_MQTT_HOST : {"", "broker"},
     DHSILED_MQTT_PORT : {"", "1884", "abc"},
     DHSILED_GRID_ID : {"", "G02"},
     DHSILED_LOG_LEVEL : {"", "DEBUG"}]

\* int(): the number a numeral denotes; anything else raises ValueError
IsNumeral(text) == text \in {"1883", "1884"}

int(text) == CASE text = "1883" -> 1883 [] text = "1884" -> 1884

\* self.config_data.setdefault(k1, {})[k2] = value
override(config, k1, k2, value) ==
    IF config = TypeError \/ config.kind # "map" THEN TypeError
    ELSE LET section == IF k1 \in DOMAIN config.items THEN config.items[k1]
                        ELSE EmptyMap
         IN IF section.kind # "map" THEN TypeError
            ELSE PutItem(config, k1, PutItem(section, k2, value))

\* _load_env_overrides; TypeError stands for any exception
load_env_overrides(config, env) ==
    LET c1 == IF env.DHSILED_MQTT_HOST # ""
              THEN override(config, MqttKey, HostKey,
                            Scalar(env.DHSILED_MQTT_HOST))
              ELSE config
        c2 == IF env.DHSILED_MQTT_PORT # ""
              THEN IF IsNumeral(env.DHSILED_MQTT_PORT)
                   THEN override(c1, MqttKey, PortKey,
                                 Scalar(int(env.DHSILED_MQTT_PORT)))
                   ELSE TypeError
              ELSE c1
        c3 == IF env.DHSILED_GRID_ID # ""
              THEN override(c2, GridKey, IdKey, Scalar(env.DHSILED_GRID_ID))
              ELSE c2
        c4 == IF env.DHSILED_LOG_LEVEL # ""
              THEN override(c3, LoggingKey, LevelKey,
                            Scalar(env.DHSILED_LOG_LEVEL))
              ELSE c3
    IN IF c1 = TypeError \/ c2 = TypeError \/ c3 = TypeError THEN TypeError
       ELSE c4

\* load_config: a missing file gives the defaults and returns; any
\* exception gives the defaults
load_config(file, env) ==
    IF file.kind # "read" THEN default_config
    ELSE LET loaded == load_env_overrides(file.doc, env)
         IN IF loaded = TypeError THEN default_config ELSE loaded

LoadConfig ==
    /\ \E file \in ConfigFiles, env \in Environments :
          /\ config_data' = load_config(file, env)
          /\ cfgOut' = [op |-> "load_config", raised |-> FALSE,
                        file |-> file, env |-> env]
    /\ UNCHANGED cfgRest

NextLoad == LoadConfig

SpecLoad == InitApi /\ [][NextLoad]_vars

\* the nested key holds the variable's value when the variable is set
Holds(variable, key, value, default) ==
    variable # "" => get(config_data, key, default) = value

\* C33: after the configuration is loaded, from the file or from the
\* built-in defaults, each recognized environment variable that is set is
\* found under its nested key, the port as an integer.
C33_EnvOverrides ==
    cfgOut.op = "load_config" =>
        LET env == cfgOut.env
        IN /\ Holds(env.DHSILED_MQTT_HOST, Dotted(MqttKey, HostKey),
                    Scalar(env.DHSILED_MQTT_HOST), Scalar(""))
           /\ IsNumeral(env.DHSILED_MQTT_PORT) =>
                 Holds(env.DHSILED_MQTT_PORT, Dotted(MqttKey, PortKey),
                       Scalar(int(env.DHSILED_MQTT_PORT)), Scalar(0))
           /\ Holds(env.DHSILED_GRID_ID, Dotted(GridKey, IdKey),
                    Scalar(env.DHSILED_GRID_ID), Scalar(""))
           /\ Holds(env.DHSILED_LOG_LEVEL, Dotted(LoggingKey, LevelKey),
                    Scalar(env.DHSILED_LOG_LEVEL), Scalar(""))

\* ======================================================================
\* DeviceMonitor (src/edge-computing/src/processors/device_monitor.py)
\* ======================================================================

\* the clock of the monitor advances in steps of MonitorTick seconds up to
\* MonitorMaxTime
MonitorTick == 150
MonitorMaxTime == 300

\* self.alert_cooldown
HealthAlertCooldown == 300

\* self.thresholds, the defaults
thresholds == [cpu_temp |-> 80, memory_usage |-> 95, disk_usage |-> 90]

\* the mounts of the host, in the order of the disk_usage dict
Mounts == <<"/", "/data">>

\* the alert keys; f'disk_usage_{mount}' is the pair of prefix and mount
CpuKey == <<"cpu_temp">>
MemoryKey == <<"memory_usage">>
DiskKey(mount) == <<"disk_usage_", mount>>

HealthAlertKeys ==
    <<CpuKey, MemoryKey>> \o [i \in 1..Len(Mounts) |-> DiskKey(Mounts[i])]

\* the health samples taken
HealthSamples ==
    [cpu_temperature : {45, 90}, memory_usage : {50, 96},
     disk_usage : [{Mounts[i] : i \in 1..Len(Mounts)} -> {50, 95}]]

\* whether the sample is above the threshold the key stands for
Breached(sample, key) ==
    IF key = CpuKey THEN sample.cpu_temperature > thresholds.cpu_temp
    ELSE IF key = MemoryKey
    THEN sample.memory_usage > thresholds.memory_usage
    ELSE sample.disk_usage[key[2]] > thresholds.disk_usage

Stamped(last, key, t) ==
    [k \in (DOMAIN last) \cup {key} |-> IF k = key THEN t ELSE last[k]]

\* _should_send_alert with the stamp of a repeated alert left out
should_send_alert_unstamped(last, key, current_time) ==
    IF key \notin DOMAIN last
    THEN [send |-> TRUE, last |-> Stamped(last, key, current_time)]
    ELSE [send |-> current_time - last[key] >= HealthAlertCooldown,
          last |-> last]

\* _should_send_alert: the first alert of a key, and one whose cooldown is
\* over, is sent and stamped
should_send_alert(last, key, current_time) ==
    IF key \notin DOMAIN last
    THEN [send |-> TRUE, last |-> Stamped(last, key, current_time)]
    ELSE IF current_time - last[key] >= HealthAlertCooldown
    THEN [send |-> TRUE, last |-> Stamped(last, key, current_time)]
    ELSE [send |-> FALSE, last |-> last]

\* _check_health_alerts over the keys left to check: the alerts appended
\* and the stamps
RECURSIVE check_health_alerts(_, _, _, _)
check_health_alerts(keys, sample, last, current_time) ==
    IF keys = <<>> THEN [alerts |-> <<>>, last |-> last]
    ELSE IF ~Breached(sample, Head(keys))
    THEN check_health_alerts(Tail(keys), sample, last, current_time)
    ELSE LET asked == should_send_alert(last, Head(keys), current_time)
             rest == check_health_alerts(Tail(keys), sample, asked.last,
                                         current_time)
         IN [alerts |-> (IF asked.send THEN <<Head(keys)>> ELSE <<>>)
                           \o rest.alerts,
             last |-> rest.last]

dmRest == <<mqttVars, edgeVars, densVars, appVars, apiVars, alertsOut,
            bridgeVars, cfgVars, rlVars, dbVars, flushVars, baVars, thrVars,
            now>>

CheckHealthAlerts ==
    /\ \E sample \in HealthSamples :
          LET checked == check_health_alerts(HealthAlertKeys, sample,
                                             last_alerts, dmNow)
          IN /\ last_alerts' = checked.last
             /\ dmOut' = [op |-> "check_health_alerts", at |-> dmNow,
                          sample |-> sample, alerts |-> checked.alerts]
             /\ dmEmitted' =
                   [k \in (DOMAIN dmEmitted)
                             \cup {checked.alerts[i] :
                                      i \in 1..Len(checked.alerts)} |->
                       IF \E i \in 1..Len(checked.alerts) :
                             checked.alerts[i] = k
                       THEN dmNow ELSE dmEmitted[k]]
    /\ UNCHANGED <<dmNow, dmRest>>

MonitorClock ==
    /\ dmNow < MonitorMaxTime
    /\ dmNow' = dmNow + MonitorTick
    /\ UNCHANGED <<last_alerts, dmOut, dmEmitted, dmRest>>

NextMonitor ==
    \/ CheckHealthAlerts
    \/ MonitorClock

SpecMonitor == InitApi /\ [][NextMonitor]_vars

\* the alerts of a key among the alerts returned
AlertsOf(alerts, key) == {i \in 1..Len(alerts) : alerts[i] = key}

\* no alert of the key was emitted yet, or the last one 300 s ago or more
CooldownOver(key) ==
    \/ key \notin DOMAIN dmEmitted
    \/ dmNow - dmEmitted[key] >= HealthAlertCooldown

\* C34: a check emits exactly one alert for each key whose threshold the
\* sample breaches and whose last alert, if any, was emitted 300 s ago or
\* more, and none for any other key: two alerts of a key are never less
\* than 300 s apart, the first breach and the first breach after the
\* cooldown are alerted, and the cooldown of a key regards that key only.
C34_HealthAlertCooldown ==
    [][(dmOut'.op = "check_health_alerts" /\ dmNow' = dmNow) =>
          \A i \in 1..Len(HealthAlertKeys) :
              LET key == HealthAlertKeys[i]
              IN Cardinality(AlertsOf(dmOut'.alerts, key)) =
                    IF Breached(dmOut'.sample, key) /\ CooldownOver(key)
                    THEN 1 ELSE 0]_vars

\* a check 300 s or more after the first alert of cpu_temp emits it again
\* while the alert of memory_usage, emitted later, is still held back
C34_Witness ==
    /\ dmOut.op = "check_health_alerts"
    /\ dmOut.at >= HealthAlertCooldown
    /\ AlertsOf(dmOut.alerts, CpuKey) # {}
    /\ Breached(dmOut.sample, MemoryKey)
    /\ AlertsOf(dmOut.alerts, MemoryKey) = {}

\* ======================================================================
\* The health score of the device monitor
\* ======================================================================

\* the health data scored; numeric is false for data in which a reading is
\* no number
HealthData ==
    [cpu_temperature : {45, 75, 90}, cpu_usage : {50, 95},
     memory_usage : {50, 90, 100},
     disk_usage : [{Mounts[i] : i \in 1..Len(Mounts)} -> {50, 95}],
     connectivity : BOOLEAN, camera : BOOLEAN, numeric : BOOLEAN]

Least(a, b) == IF a < b THEN a ELSE b

\* the deductions of _calculate_health_score, in tenths of a point
deductions(health_data) ==
    (IF health_data.cpu_temperature > 70
     THEN Least(300, (health_data.cpu_temperature - 70) * 20) ELSE 0)
    + (IF health_data.cpu_usage > 80
       THEN Least(200, (health_data.cpu_usage - 80) * 10) ELSE 0)
    + (IF health_data.memory_usage > 85
       THEN Least(200, (health_data.memory_usage - 85) * 15) ELSE 0)
    + 100 * Cardinality({i \in 1..Len(Mounts) :
                            health_data.disk_usage[Mounts[i]] > 90})
    + (IF health_data.connectivity THEN 0 ELSE 150)
    + (IF health_data.camera THEN 0 ELSE 50)

\* the score with the clamp left out
calculate_health_score_unclamped(health_data) ==
    IF ~health_data.numeric THEN 500
    ELSE 1000 - deductions(health_data)

\* _calculate_health_score, in tenths of a point: 100 less the deductions,
\* clamped to [0, 100]; 50 when the computation raises
calculate_health_score(health_data) ==
    IF ~health_data.numeric THEN 500
    ELSE LET score == 1000 - deductions(health_data)
         IN IF score < 0 THEN 0 ELSE Least(1000, score)

CalculateHealthScore ==
    /\ \E health_data \in HealthData :
          dmOut' = [op |-> "calculate_health_score", input |-> health_data,
                    score |-> calculate_health_score(health_data)]
    /\ UNCHANGED <<last_alerts, dmNow, dmEmitted, dmRest>>

NextScore == CalculateHealthScore

SpecScore == InitApi /\ [][NextScore]_vars

\* the input of the example: cpu_usage 50, memory 50, every disk at 50 %,
\* connectivity, camera available
ExampleInput(cpu_temp) ==
    [cpu_temperature |-> cpu_temp, cpu_usage |-> 50, memory_usage |-> 50,
     disk_usage |-> [m \in {Mounts[i] : i \in 1..Len(Mounts)} |-> 50],
     connectivity |-> TRUE, camera |-> TRUE, numeric |-> TRUE]

Scored == dmOut.op = "calculate_health_score"

\* C35 as stated: the example input with cpu_temp 75 scores 100, with
\* cpu_temp 90 it scores 70, and every score lies in [0, 100].
C35_ScoreExamples ==
    Scored =>
        /\ dmOut.input = ExampleInput(75) => dmOut.score = 1000
        /\ dmOut.input = ExampleInput(90) => dmOut.score = 700
        /\ dmOut.score >= 0 /\ dmOut.score <= 1000

\* C35 amended: the example input with cpu_temp 75 scores 90 (2 points are
\* deducted per degree above 70), with cpu_temp 90 it scores 70, and every
\* score lies in [0, 100].
C35_ScoreFollowsFormula ==
    Scored =>
        /\ dmOut.input = ExampleInput(75) => dmOut.score = 900
        /\ dmOut.input = ExampleInput(90) => dmOut.score = 700
        /\ dmOut.score >= 0 /\ dmOut.score <= 1000

\* the example input with cpu_temp 75 has been scored
C35_Witness == Scored /\ dmOut.input = ExampleInput(75)

\* ======================================================================
\* API server: the bus-subscriber thread against the request handlers
\* ======================================================================

\* loop_start() runs on_mqtt_message in the client's network thread; the
\* request handlers run in the server's threads.  The handler's append and
\* its trim are two statements, and a request handler can run between them.
thrRest ==
    <<mqtt_client, apiReq, apiResp, mqttVars, edgeVars, densVars, appVars,
      now, alertsOut, bridgeVars, cfgVars, rlVars, dbVars, flushVars,
      baVars, dmVars>>

\* the capacity the trim of a ring compares with
capacity(ring) == IF ring = "alerts" THEN AlertRingSize ELSE HealthRingSize

\* on_mqtt_message up to and including the append of its branch; the
\* status branch has no second statement
SubscriberAppends(topic) ==
    /\ mqtt_client = "up"
    /\ subPending = "none"
    /\ Len(busLog) < MaxBusMsgs
    /\ LET payload == [id |-> Len(busLog) + 1]
           branch == dispatch(topic)
       IN /\ busLog' = Append(busLog, [topic |-> topic, payload |-> payload])
          /\ grid_states' =
                 IF branch = "status"
                 THEN Put(grid_states, grid_id_of(topic), payload)
                 ELSE grid_states
          /\ alert_history' =
                 IF branch = "alerts"
                 THEN Append(alert_history, AlertEntry(payload))
                 ELSE alert_history
          /\ health_history' =
                 IF branch = "health"
                 THEN Append(health_history,
                             HealthEntry(payload, grid_id_of(topic)))
                 ELSE health_history
          /\ subPending' = IF branch \in {"alerts", "health"} THEN branch
                           ELSE "none"
    /\ UNCHANGED <<seen, thrRest>>

\* if len(ring) > capacity: ring.pop(0)
SubscriberTrims ==
    /\ subPending # "none"
    /\ alert_history' =
           IF subPending = "alerts" /\ Len(alert_history) > AlertRingSize
           THEN Tail(alert_history) ELSE alert_history
    /\ health_history' =
           IF subPending = "health" /\ Len(health_history) > HealthRingSize
           THEN Tail(health_history) ELSE health_history
    /\ subPending' = "none"
    /\ UNCHANGED <<grid_states, busLog, seen, thrRest>>

\* get_grids_health: count is len(health_history)
RequestGridsHealth ==
    /\ seen' = [by |-> "get_grids_health", ring |-> "health",
                len |-> Len(health_history),
                count |-> Len(health_history)]
    /\ UNCHANGED <<grid_states, alert_history, health_history, busLog,
                   subPending, thrRest>>

\* get_alerts: count is the length of the list it returns
RequestAlerts ==
    /\ \E limit \in 0..MaxLimit :
          seen' = [by |-> "get_alerts", ring |-> "alerts",
                   len |-> Len(alert_history),
                   count |-> Len(get_alerts(alert_history, limit, ""))]
    /\ UNCHANGED <<grid_states, alert_history, health_history, busLog,
                   subPending, thrRest>>

NextThreads ==
    \/ StartMqttClient
    \/ \E topic \in Topics : SubscriberAppends(topic)
    \/ SubscriberTrims
    \/ RequestGridsHealth
    \/ RequestAlerts

SpecThreads == InitApi /\ [][NextThreads]_vars

\* C38: under every interleaving of the subscriber thread with the request
\* handlers, no handler observes the alert ring or the health ring with
\* more entries than its capacity, and no response reports a count above
\* the capacity.
C38_RingsWithinCapacity ==
    seen.by # "none" =>
        /\ seen.len <= capacity(seen.ring)
        /\ seen.count <= capacity(seen.ring)

\* the same observation whenever the subscriber is between two messages
C38_WithinCapacityBetweenMessages ==
    subPending = "none" =>
        /\ Len(alert_history) <= AlertRingSize
        /\ Len(health_history) <= HealthRingSize

\* ======================================================================
\* Behavior severity: the Behavior Analyzer against the Edge Processor
\* ======================================================================

\* behavior_classes without 'normal'
AbnormalClasses ==
    {"panic", "running", "fighting", "falling", "unusual_gathering",
     "crowd_surge", "evacuation"}

\* the confidences, in percent, above the Edge Processor's 0.7
HighConfidences == 71..100

\* BehaviorAnalyzer._calculate_severity, confidence in percent
calculate_severity(behavior, confidence) ==
    IF behavior \in {"panic", "fighting", "crowd_surge"}
    THEN IF confidence > 80 THEN "critical"
         ELSE IF confidence > 60 THEN "high"
         ELSE "medium"
    ELSE IF behavior \in {"running", "unusual_gathering", "evacuation"}
    THEN IF confidence > 80 THEN "high"
         ELSE IF confidence > 60 THEN "medium"
         ELSE "low"
    ELSE IF confidence > 80 THEN "medium"
         ELSE "low"

\* the severities for which the Edge Processor raises behavior_anomaly
Alerting == {"high", "critical"}

\* one behavior above the threshold is rated by both components
RateBehavior ==
    /\ \E behavior \in AbnormalClasses, confidence \in HighConfidences :
          baOut' = [op |-> "severity", n |-> 0, behavior |-> behavior,
                    confidence |-> confidence,
                    analyzer |-> calculate_severity(behavior, confidence),
                    edge |-> get_behavior_severity(behavior, confidence)]
    /\ UNCHANGED <<prediction_history, baRest>>

NextSeverity == RateBehavior

SpecSeverity == InitApi /\ [][NextSeverity]_vars

\* C39: for each of the seven non-normal classes and every confidence above
\* 0.7, the severity the Edge Processor attaches equals the severity
\* _calculate_severity gives, so both agree on which behaviors are high or
\* critical.
C39_SeveritiesAgree ==
    baOut.op = "severity" =>
        /\ baOut.edge = baOut.analyzer
        /\ (baOut.edge \in Alerting) = (baOut.analyzer \in Alerting)

\* ======================================================================
\* Data access layer: the Edge Processor's alerts, saved and looked up
\* ======================================================================

\* the number of alerts the Edge Processor hands over
MaxEdgeAlerts == 4

\* the alerts as check_alerts builds them: an id from generate_alert_id,
\* a timestamp, and no alert_id field
EdgeAlerts ==
    {[id |-> i, alert_id |-> 0, timestamp |-> t] :
        i \in 1..MaxEdgeAlerts, t \in DbTimes}

\* get_alert: find_one with a filter on alert_id, no try/except
DbGetAlert(alert_id, out) ==
    /\ dbOut' =
          IF out = "ok"
          THEN [op |-> "get_alert", raised |-> FALSE,
                ok |-> Matching(db_alerts, alert_id) # {},
                rows |-> {db_alerts[i] : i \in
                             {k \in Matching(db_alerts, alert_id) :
                                 \A j \in Matching(db_alerts, alert_id) :
                                     k <= j}},
                asked |-> alert_id]
          ELSE [op |-> "get_alert", raised |-> TRUE, ok |-> FALSE,
                rows |-> {}, asked |-> alert_id]
    /\ UNCHANGED <<db_grids, db_alerts, db_health, db_analytics, dbRest>>

\* the store answers every save; the lookups are made with the id of an
\* alert the collection holds
NextRoundTrip ==
    \/ \E alert \in EdgeAlerts :
          /\ \A i \in 1..Len(db_alerts) : db_alerts[i].id # alert.id
          /\ SaveAlert(alert, "ok")
    \/ \E i \in 1..Len(db_alerts), out \in StoreOutcomes :
          DbGetAlert(db_alerts[i].id, out)
    \/ \E i \in 1..Len(db_alerts), out \in StoreOutcomes :
          DbAcknowledgeAlert(db_alerts[i].id, out)
    \/ \E i \in 1..Len(db_alerts), out \in StoreOutcomes :
          DbResolveAlert(db_alerts[i].id, out)

SpecRoundTrip == InitApi /\ [][NextRoundTrip]_vars

\* C40: for alerts of pairwise distinct ids as the Edge Processor produces
\* them, save_alert succeeds for every one, and afterwards get_alert,
\* acknowledge_alert and resolve_alert called with an alert's id find
\* exactly that alert.
C40_AlertRoundTrip ==
    /\ dbOut.op = "save_alert" => dbOut.ok
    /\ (dbOut.op \in {"get_alert", "acknowledge_alert", "resolve_alert"}
            /\ ~dbOut.raised) => dbOut.ok
    /\ (dbOut.op = "get_alert" /\ ~dbOut.raised) =>
           \E doc \in dbOut.rows : doc.id = dbOut.asked

====
